---- MODULE Spec2Model ----
(***************************************************************************)
(* Model of the workflow execution engine of Dynamic_Workflow:             *)
(*   - DependencyResolver (topological_sort, validate_workflow)            *)
(*   - ExecutionService.execute_workflow (level by level orchestration)    *)
(*   - DynamicAgentExecutor (retry state machine, one attempt, cleanup)    *)
(*   - ServiceManager (port allocation, deploy, stop)                      *)
(***************************************************************************)
EXTENDS Integers, Sequences, FiniteSets, TLC

(***************************************************************************)
(* Bounds of the model.                                                    *)
(***************************************************************************)
MaxUnits == 3
MaxEdges == 3
\* edge lists of the workflows that are executed, and attempt limits of the
\* ones among them that are executed with retries
MaxRunEdges == 2
MaxRunRetries == 2
\* attempt limits of the single-unit invocations, and of those among them
\* whose unit requires a vector index
MaxAttemptLimit == 6
MaxIndexAttemptLimit == 3
\* number of ports of the pool that are modelled, and of concurrent deployments
PoolSize == 3
NumDeployers == 2
\* texts given to the name sanitizer: a run of up to MaxPad letters, then up
\* to MaxMarkLen arbitrary characters
MaxPad == 64
MaxMarkLen == 1
\* number of tool requirements of a unit in the provisioning calls
MaxTools == 2
\* number of approve / modify / execute requests on one graph
MaxCalls == 4

\* execute_code_safely calls running at the same time
NumRunners == 2

(***************************************************************************)
(* Generic helpers on sequences.                                           *)
(***************************************************************************)
Range(s) == {s[i] : i \in 1..Len(s)}

SeqsUpTo(S, n) == UNION {[1..k -> S] : k \in 0..n}

RECURSIVE SumLens(_)
SumLens(ls) == IF ls = <<>> THEN 0 ELSE Len(Head(ls)) + SumLens(Tail(ls))

RECURSIVE Flatten(_)
Flatten(ls) == IF ls = <<>> THEN <<>> ELSE Head(ls) \o Flatten(Tail(ls))

Contains(s, x) == \E i \in 1..Len(s) : s[i] = x

(***************************************************************************)
(* Unit ids.  An id that is not the id of a unit of the graph at hand is   *)
(* an unknown id for that graph.                                           *)
(***************************************************************************)
UnitIds == <<"a", "b", "c">>

IdSet == Range(UnitIds)

IdIndex(u) == CHOOSE i \in 1..Len(UnitIds) : UnitIds[i] = u

\* unit lists up to renaming: the first occurrences of the ids appear in the
\* order of UnitIds (duplicate ids are allowed, the code does not reject them)
AgentLists ==
    {s \in SeqsUpTo(IdSet, MaxUnits) :
        /\ Len(s) >= 1
        /\ \A i \in 1..Len(s) :
              IdIndex(s[i]) <= 1 + Cardinality({s[j] : j \in 1..(i-1)})}

EdgeRecs == [from : IdSet, to : IdSet]

EdgeLists == SeqsUpTo(EdgeRecs, MaxEdges)

(***************************************************************************)
(* DependencyResolver.topological_sort                                     *)
(***************************************************************************)
\* keys of in_degree in insertion order: the unit ids, then every edge
\* destination that is not yet a key
RECURSIVE AddKeys(_, _)
AddKeys(keys, ids) ==
    IF ids = <<>> THEN keys
    ELSE AddKeys(IF Contains(keys, Head(ids)) THEN keys
                 ELSE Append(keys, Head(ids)), Tail(ids))

InDegreeKeys(ags, eds) ==
    AddKeys(AddKeys(<<>>, ags), [i \in 1..Len(eds) |-> eds[i].to])

\* variant of InDegree that counts a unit with incoming edges once
InDegreeOnce(ags, eds) ==
    [k \in Range(InDegreeKeys(ags, eds)) |->
        IF \E i \in 1..Len(eds) : eds[i].to = k THEN 1 ELSE 0]

\* in_degree after the edge loop
InDegree(ags, eds) ==
    [k \in Range(InDegreeKeys(ags, eds)) |->
        Cardinality({i \in 1..Len(eds) : eds[i].to = k})]

\* graph[u]: destinations of the edges leaving u, in edge order
RECURSIVE Neighbors(_, _)
Neighbors(eds, u) ==
    IF eds = <<>> THEN <<>>
    ELSE IF Head(eds).from = u
         THEN <<Head(eds).to>> \o Neighbors(Tail(eds), u)
         ELSE Neighbors(Tail(eds), u)

\* variant of ZeroDegree that starts the queue with every key, whatever its
\* in-degree
EveryKey(keys, deg) == keys

\* the initial queue: keys of in_degree with degree 0, in key order
ZeroDegree(keys, deg) == SelectSeq(keys, LAMBDA k : deg[k] = 0)

\* inner loop over the neighbours of one unit; st = [deg, nq]
RECURSIVE VisitNeighbors(_, _)
VisitNeighbors(st, nbrs) ==
    IF nbrs = <<>> THEN st
    ELSE LET n == Head(nbrs)
             d == st.deg[n] - 1
         IN VisitNeighbors([deg |-> [st.deg EXCEPT ![n] = d],
                            nq  |-> IF d = 0 THEN Append(st.nq, n) ELSE st.nq],
                           Tail(nbrs))

\* loop over the units of the current level
RECURSIVE VisitLevel(_, _, _)
VisitLevel(st, eds, level) ==
    IF level = <<>> THEN st
    ELSE VisitLevel(VisitNeighbors(st, Neighbors(eds, Head(level))),
                    eds, Tail(level))

\* the while loop
RECURSIVE BuildLevels(_, _, _)
BuildLevels(deg, eds, queue) ==
    IF queue = <<>> THEN <<>>
    ELSE LET st == VisitLevel([deg |-> deg, nq |-> <<>>], eds, queue)
         IN <<queue>> \o BuildLevels(st.deg, eds, st.nq)

\* result: raised = TRUE stands for the ValueError of the cycle check
topological_sort(ags, eds) ==
    LET deg    == InDegree(ags, eds)
        levels == BuildLevels(deg, eds, ZeroDegree(InDegreeKeys(ags, eds), deg))
    IN IF SumLens(levels) # Len(ags)
       THEN [raised |-> TRUE, levels |-> <<>>]
       ELSE [raised |-> FALSE, levels |-> levels]

\* variant of validate_workflow that forgets the cycle check
validate_workflow_nocycle(ags, eds) ==
    LET ids == Range(ags)
        edge_errors ==
            [i \in 1..Len(eds) |->
                (IF eds[i].from \notin ids
                 THEN <<[kind |-> "unknown_agent", id |-> eds[i].from]>> ELSE <<>>)
                \o
                (IF eds[i].to \notin ids
                 THEN <<[kind |-> "unknown_agent", id |-> eds[i].to]>> ELSE <<>>)]
        errors == Flatten(edge_errors)
    IN [valid |-> Len(errors) = 0, errors |-> errors, warnings |-> <<>>]

(***************************************************************************)
(* DependencyResolver.validate_workflow                                    *)
(***************************************************************************)
validate_workflow(ags, eds) ==
    LET ids == Range(ags)
        edge_errors ==
            [i \in 1..Len(eds) |->
                (IF eds[i].from \notin ids
                 THEN <<[kind |-> "unknown_agent", id |-> eds[i].from]>> ELSE <<>>)
                \o
                (IF eds[i].to \notin ids
                 THEN <<[kind |-> "unknown_agent", id |-> eds[i].to]>> ELSE <<>>)]
        connected == {eds[i].from : i \in 1..Len(eds)} \cup
                     {eds[i].to : i \in 1..Len(eds)}
        isolated == ids \ connected
        warnings == IF isolated # {} /\ Len(ags) > 1
                    THEN <<[kind |-> "isolated", ids |-> isolated]>> ELSE <<>>
        cycle_errors == IF topological_sort(ags, eds).raised
                        THEN <<[kind |-> "circular", id |-> "none"]>> ELSE <<>>
        errors == Flatten(edge_errors) \o cycle_errors
    IN [valid |-> Len(errors) = 0, errors |-> errors, warnings |-> warnings]

(***************************************************************************)
(* Graph notions used to state the properties (independent of the sort).   *)
(***************************************************************************)
EdgePairs(eds) == {<<eds[i].from, eds[i].to>> : i \in 1..Len(eds)}

\* nodes reachable from u by one or more edges
RECURSIVE ReachFrom(_, _, _)
ReachFrom(E, frontier, seen) ==
    LET nxt == {p[2] : p \in {q \in E : q[1] \in frontier}} \ seen
    IN IF nxt = {} THEN seen ELSE ReachFrom(E, nxt, seen \cup nxt)

Reachable(eds, u) == ReachFrom(EdgePairs(eds), {u}, {})

HasCycle(eds) == \E p \in EdgePairs(eds) : p[1] \in Reachable(eds, p[1])

UniqueIds(ags) == \A i, j \in 1..Len(ags) : ags[i] = ags[j] => i = j

EndpointsKnown(ags, eds) ==
    \A i \in 1..Len(eds) : eds[i].from \in Range(ags) /\ eds[i].to \in Range(ags)

IsDAG(ags, eds) == UniqueIds(ags) /\ EndpointsKnown(ags, eds) /\ ~HasCycle(eds)

\* index of the level holding u (0 when u is in no level)
LevelOf(levels, u) ==
    IF \E k \in 1..Len(levels) : Contains(levels[k], u)
    THEN CHOOSE k \in 1..Len(levels) : Contains(levels[k], u)
    ELSE 0

Occurrences(s, x) == Cardinality({i \in 1..Len(s) : s[i] = x})

(***************************************************************************)
(* Outputs of an attempt.  The text of an output is modelled by the set of *)
(* phrases it contains; Sub lists which phrases contain which.             *)
(***************************************************************************)
description_phrases ==
    {"here's what you should do", "you should", "steps to follow",
     "you need to", "first you would", "the process involves", "here's how to"}

execution_signs ==
    {"indexed", "created", "deployed", "processed", "generated", "saved",
     "completed", "ok-mark", "success", ".png", ".pdf", ".docx",
     "/app/data/uploads"}

\* <<p, t>>: phrase p is a substring of phrase t
SubPairs ==
    {<<"you should", "here's what you should do">>,
     <<"deployed", "deployed successfully">>,
     <<"success", "deployed successfully">>}

Sub(p, t) == p = t \/ <<p, t>> \in SubPairs

NoOutput == [form |-> "none", tokens |-> {}, error |-> ""]

TextOut(toks) == [form |-> "text", tokens |-> toks, error |-> ""]

\* an output that _parse_output turned into a JSON value
JsonOut(toks) == [form |-> "json", tokens |-> toks, error |-> ""]

\* f"Failed after {max_retries} attempts. Last error: {last_error}"
FailureOut(err) == [form |-> "text", tokens |-> {"failed after attempts"}, error |-> err]

HasPhrase(out, p) == \E t \in out.tokens : Sub(p, t)

\* outputs an attempt can return (what the language model answered)
AttemptOutputs ==
    {TextOut({"you should", "the steps are"}),
     TextOut({"the steps are"}),
     TextOut({"you should", "created"}),
     TextOut({"created"}),
     JsonOut({"success"}),
     TextOut({"deployed successfully", "URL: http://localhost:8501", "streamlit"}),
     TextOut({"deployed successfully", "URL: http://localhost:8502", "flask"})}

\* exceptions an attempt can raise (an external call failed)
AttemptErrors == {"ConnectionError: provider unreachable"}

DescriptionError == "Agent returned description instead of execution"

StoreError == "ServerSelectionTimeoutError: error store unreachable"

\* variant of _is_execution_successful that only looks for execution signs
any_execution_sign(out) ==
    \E sign \in execution_signs : HasPhrase(out, sign)

(***************************************************************************)
(* DynamicAgentExecutor._is_execution_successful                           *)
(***************************************************************************)
_is_execution_successful(out) ==
    LET has_description == \E phrase \in description_phrases : HasPhrase(out, phrase)
        has_execution   == \E sign \in execution_signs : HasPhrase(out, sign)
    IN has_execution /\ ~has_description

\* variant of StrategyFor that repeats the rewrite strategy on attempt 5
StrategyForStuck(attempt) ==
    IF attempt = 1 THEN "normal"
    ELSE IF attempt = 2 THEN "fix_obvious"
    ELSE IF attempt = 3 THEN "web_search"
    ELSE "rewrite"

\* strategy of an attempt, execute_agent_with_retry lines 70-84
StrategyFor(attempt) ==
    IF attempt = 1 THEN "normal"
    ELSE IF attempt = 2 THEN "fix_obvious"
    ELSE IF attempt = 3 THEN "web_search"
    ELSE IF attempt = 4 THEN "rewrite"
    ELSE "alternative"

\* max_retries = max_retries or self.max_retries
DefaultMaxRetries == 5

\* variant of EffectiveMaxRetries that allows a single attempt
SingleAttempt(n) == 1

EffectiveMaxRetries(n) == IF n = 0 THEN DefaultMaxRetries ELSE n

(***************************************************************************)
(* Tools: ToolRegistry.provision_tool and _provision_tools                 *)
(***************************************************************************)
PredefinedTools == {"rag_builder", "rag_chat", "report_generator", "web_search"}

VectorDbTools == {"chromadb", "faiss"}

McpTools == {"filesystem", "mongodb", "slack", "websearch"}

\* tool names a unit may require; "spreadsheet" is known to nobody
ToolNames == {"chromadb", "faiss", "websearch", "rag_builder",
              "deploy_streamlit", "python_executor", "spreadsheet"}

\* ToolRegistry.provision_tool: the configuration returned for one tool, or
\* raised = TRUE; create_ok tells whether the vector store call succeeded
provision_tool(tool_name, agent_id, attempt, k, create_ok) ==
    IF tool_name \in VectorDbTools
    THEN IF create_ok
         THEN [raised |-> FALSE, type |-> "vector_db", tool_name |-> tool_name,
               cleanup_required |-> TRUE,
               collection |-> <<agent_id, attempt, k>>]
         ELSE [raised |-> TRUE, type |-> "none", tool_name |-> tool_name,
               cleanup_required |-> FALSE, collection |-> <<>>]
    ELSE IF tool_name \in McpTools
    THEN [raised |-> FALSE, type |-> "mcp", tool_name |-> tool_name,
          cleanup_required |-> FALSE, collection |-> <<>>]
    ELSE IF tool_name = "python_executor"
    THEN [raised |-> FALSE, type |-> "code_execution", tool_name |-> tool_name,
          cleanup_required |-> FALSE, collection |-> <<>>]
    ELSE IF tool_name \in {"deploy_streamlit", "deploy_gradio"}
    THEN [raised |-> FALSE, type |-> "service_deployment", tool_name |-> tool_name,
          cleanup_required |-> FALSE, collection |-> <<>>]
    ELSE [raised |-> TRUE, type |-> "none", tool_name |-> tool_name,
          cleanup_required |-> FALSE, collection |-> <<>>]

\* DynamicAgentExecutor._provision_tools: code execution first, then every
\* requirement that is predefined or whose provisioning did not raise
RECURSIVE ProvisionFrom(_, _, _, _, _)
\* variant of ProvisionFrom that gives up the remaining requirements at the
\* first one whose provisioning raises
ProvisionUntilFailure(tools, k, agent_id, attempt, create_fail) ==
    IF k > Len(tools) THEN <<>>
    ELSE LET name == tools[k]
             cfg  == provision_tool(name, agent_id, attempt, k, k \notin create_fail)
         IN IF name \in PredefinedTools
            THEN <<[raised |-> FALSE, type |-> "predefined", tool_name |-> name,
                    cleanup_required |-> FALSE, collection |-> <<>>]>>
                 \o ProvisionFrom(tools, k + 1, agent_id, attempt, create_fail)
            ELSE IF cfg.raised THEN <<>>
            ELSE <<cfg>> \o ProvisionFrom(tools, k + 1, agent_id, attempt, create_fail)

ProvisionFrom(tools, k, agent_id, attempt, create_fail) ==
    IF k > Len(tools) THEN <<>>
    ELSE LET name == tools[k]
             cfg  == provision_tool(name, agent_id, attempt, k, k \notin create_fail)
             this == IF name \in PredefinedTools
                     THEN <<[raised |-> FALSE, type |-> "predefined", tool_name |-> name,
                             cleanup_required |-> FALSE, collection |-> <<>>]>>
                     ELSE IF cfg.raised THEN <<>> ELSE <<cfg>>
         IN this \o ProvisionFrom(tools, k + 1, agent_id, attempt, create_fail)

\* the requirements for which _provision_tools prints the failure warning
ProvisionWarnings(agent_id, tools, attempt, create_fail) ==
    {tools[k] : k \in {j \in 1..Len(tools) :
        /\ tools[j] \notin PredefinedTools
        /\ provision_tool(tools[j], agent_id, attempt, j, j \notin create_fail).raised}}

_provision_tools_nosandbox(agent_id, tools, attempt, create_fail) ==
    ProvisionFrom(tools, 1, agent_id, attempt, create_fail)

_provision_tools(agent_id, tools, attempt, create_fail) ==
    <<[raised |-> FALSE, type |-> "code_execution", tool_name |-> "python_executor",
       cleanup_required |-> FALSE, collection |-> <<>>]>>
    \o ProvisionFrom(tools, 1, agent_id, attempt, create_fail)

\* collections created while provisioning
CreatedCollections(provisioned) ==
    {provisioned[i].collection : i \in {j \in 1..Len(provisioned) :
                                          provisioned[j].type = "vector_db"}}

\* variant of cleanup_tools that tears down every provisioned entry
cleanup_every_tool(provisioned) ==
    {provisioned[i].collection : i \in 1..Len(provisioned)}

\* ToolRegistry.cleanup_tools: the collections it deletes
cleanup_tools(provisioned) ==
    {provisioned[i].collection : i \in {j \in 1..Len(provisioned) :
        provisioned[j].cleanup_required /\ provisioned[j].type = "vector_db"}}

(***************************************************************************)
(* DynamicAgentExecutor.execute_agent: one attempt.                        *)
(* env is what the environment does during the attempt:                    *)
(*   raises/error  an external call (credentials, model) raised            *)
(*   output        the answer of the model when nothing raised             *)
(*   create_fail   positions of the requirements whose provisioning raised *)
(***************************************************************************)
execute_agent(agent_id, tools, attempt, env) ==
    LET provisioned == _provision_tools(agent_id, tools, attempt, env.create_fail)
    IN IF env.raises
       THEN \* the except branch re-raises; step 8 (cleanup) was not reached
            [raised  |-> TRUE,
             error   |-> env.error,
             output  |-> NoOutput,
             bound   |-> provisioned,
             created |-> CreatedCollections(provisioned),
             deleted |-> {}]
       ELSE [raised  |-> FALSE,
             error   |-> "",
             output  |-> env.output,
             bound   |-> provisioned,
             created |-> CreatedCollections(provisioned),
             deleted |-> cleanup_tools(provisioned)]

(***************************************************************************)
(* DynamicAgentExecutor.execute_agent_with_retry: one iteration of the     *)
(* for loop (and, on the last iteration, the code after the loop).         *)
(* An invocation is [status, attempt, error_history, last_error, result];   *)
(* last_output remembers what the previous attempt returned (history).     *)
(***************************************************************************)
(***************************************************************************)
(* DynamicAgentExecutor._enhance_prompt_with_strategy.  The text of        *)
(* detailed_prompt is the sequence of its parts: the instructions of the   *)
(* unit, then the notes appended to them.  The error texts of the model    *)
(* are shorter than the 150 and 300 characters the notes keep of them.     *)
(***************************************************************************)
PromptPart(part, of, error, errors) ==
    [part |-> part, of |-> of, error |-> error, errors |-> errors]

\* agent.model_dump() (execution_service.py line 96)
AgentConfig(agent_id) ==
    [id |-> agent_id,
     detailed_prompt |-> <<PromptPart("instructions", agent_id, "", <<>>)>>]

NoConfig == [id |-> "", detailed_prompt |-> <<>>]

_summarize_errors(error_history) ==
    IF error_history = <<>> THEN <<"No previous errors">>
    ELSE [k \in 1..Len(error_history) |->
            <<error_history[k].attempt, error_history[k].strategy,
              error_history[k].error>>]

\* what the knowledge search can do: the credential is missing, the lookup
\* answers success False, something inside the function raises (the import,
\* the credential manager, the tool, a result without title), or findings
\* come back
SearchOutcomes == {"no_credential", "failed", "raised", "found"}

\* variant of _search_for_solution whose note is empty unless findings
\* come back
_search_for_solution_or_nothing(error_message, search) ==
    [query    |-> <<"python", error_message, "solution fix">>,
     text     |-> IF search = "found" THEN "TOP SOLUTIONS" ELSE "",
     findings |-> search = "found"]

\* the string returned: the findings, or one of the three notes (lines
\* 337-338, 367-368, 370-371); the function has no raise of its own
_search_for_solution(error_message, search) ==
    [query    |-> <<"python", error_message, "solution fix">>,
     text     |-> IF search = "no_credential" THEN "Web search unavailable"
                  ELSE IF search = "failed" THEN "Web search failed"
                  ELSE IF search = "raised" THEN "Could not search for solution"
                  ELSE "TOP SOLUTIONS",
     findings |-> search = "found"]

\* the text appended to base_prompt
Enhancement(strategy, error_history, search) ==
    IF strategy = "normal" THEN <<>>
    ELSE IF strategy = "fix_obvious"
    THEN IF error_history = <<>> THEN <<>>
         ELSE <<PromptPart("fix_obvious", "",
                           error_history[Len(error_history)].error, <<>>)>>
    ELSE IF strategy = "web_search"
    THEN IF error_history = <<>> THEN <<>>
         ELSE <<PromptPart("web_search", "",
                           error_history[Len(error_history)].error,
                           _search_for_solution(error_history[Len(error_history)].error,
                                                search))>>
    ELSE IF strategy = "rewrite"
    THEN <<PromptPart("rewrite", "", "", _summarize_errors(error_history))>>
    ELSE <<PromptPart("alternative", "", "", _summarize_errors(error_history))>>

\* variant of _enhance_prompt_with_strategy that works on the dict it was
\* given instead of a copy
_enhance_prompt_in_place(agent_config, strategy, error_history, search) ==
    LET base_prompt == agent_config.detailed_prompt
        enhanced    == [agent_config EXCEPT !.detailed_prompt =
                           base_prompt \o Enhancement(strategy, error_history, search)]
    IN [enhanced |-> enhanced, agent_config |-> enhanced]

\* enhanced: the dict returned; agent_config: the caller's dict afterwards
_enhance_prompt_with_strategy(agent_config, strategy, error_history, search) ==
    LET copy        == agent_config
        base_prompt == copy.detailed_prompt
        enhanced    == [copy EXCEPT !.detailed_prompt =
                           base_prompt \o Enhancement(strategy, error_history, search)]
    IN [enhanced |-> enhanced, agent_config |-> agent_config]

NoResult ==
    [agent_id |-> "", output |-> NoOutput, status |-> "none", attempts |-> 0,
     error_history |-> <<>>, error |-> ""]

NewInvocation ==
    [status |-> "running", attempt |-> 1, error_history |-> <<>>,
     last_error |-> "", last_output |-> NoOutput, result |-> NoResult,
     agent_config |-> NoConfig, enhanced_config |-> NoConfig]

\* the invocation of a unit as execute_workflow starts it (lines 94-98)
InvocationOf(agent_id) == [NewInvocation EXCEPT !.agent_config = AgentConfig(agent_id)]

\* the call is over: its locals are gone, its result is what the caller sees
Returned(status) ==
    [status |-> status, attempt |-> 0, error_history |-> <<>>,
     last_error |-> "", last_output |-> NoOutput, result |-> NoResult,
     agent_config |-> NoConfig, enhanced_config |-> NoConfig]

Terminal(iv) == iv.status \in {"completed", "failed", "raised"}

\* the attempt is classified successful and the learned solution has to be
\* recorded before returning (line 101)
NeedsStore(iv, res) ==
    /\ ~res.raised
    /\ _is_execution_successful(res.output)
    /\ iv.attempt > 1
    /\ iv.error_history # <<>>

\* the try body ran to its return statement
AttemptSucceeds(iv, res, env) ==
    /\ ~res.raised
    /\ _is_execution_successful(res.output)
    /\ (NeedsStore(iv, res) => env.store_ok)

\* str(e) of the exception caught by the except branch
CaughtError(iv, res) ==
    IF res.raised THEN res.error
    ELSE IF ~_is_execution_successful(res.output) THEN DescriptionError
    ELSE StoreError

RetryStep(iv, agent_id, tools, n, env) ==
    LET res      == execute_agent(agent_id, tools, iv.attempt, env)
        strategy == StrategyFor(iv.attempt)
        err      == CaughtError(iv, res)
        hist     == Append(iv.error_history,
                           [attempt |-> iv.attempt, strategy |-> strategy, error |-> err])
        enh      == _enhance_prompt_with_strategy(iv.agent_config, strategy,
                                                  iv.error_history, env.search)
    IN IF AttemptSucceeds(iv, res, env)
       THEN [Returned("completed") EXCEPT
                       !.agent_config = enh.agent_config,
                       !.enhanced_config = enh.enhanced,
                       !.result = [NoResult EXCEPT !.agent_id = agent_id,
                                                   !.output = res.output,
                                                   !.status = "completed",
                                                   !.attempts = iv.attempt]]
       ELSE IF iv.attempt < EffectiveMaxRetries(n)
       THEN [iv EXCEPT !.agent_config = enh.agent_config,
                       !.enhanced_config = enh.enhanced,
                       !.attempt = iv.attempt + 1,
                       !.error_history = hist,
                       !.last_error = err,
                       !.last_output = res.output]
       ELSE IF env.final_store_ok
       THEN [Returned("failed") EXCEPT
                       !.agent_config = enh.agent_config,
                       !.enhanced_config = enh.enhanced,
                       !.result = [NoResult EXCEPT !.agent_id = agent_id,
                                                   !.output = FailureOut(err),
                                                   !.status = "failed",
                                                   !.error_history = hist]]
       ELSE \* store_solution raised after the loop: the call raises
            [Returned("raised") EXCEPT
                       !.agent_config = enh.agent_config,
                       !.enhanced_config = enh.enhanced,
                       !.result = [NoResult EXCEPT !.status = "raised",
                                                   !.error = StoreError]]

\* documents written to the error_solutions store by one iteration: res is
\* the outcome of execute_agent, nxt the invocation after the iteration
\* variant of StoreWrites that records the error of the first failed attempt
StoreWritesFirstError(iv, res, nxt, env) ==
    (IF NeedsStore(iv, res) /\ env.store_ok
     THEN {[error    |-> iv.error_history[1].error,
            solution |-> StrategyFor(iv.attempt),
            success  |-> TRUE]}
     ELSE {})
    \cup
    (IF nxt.status = "failed"
     THEN {[error |-> CaughtError(iv, res), solution |-> "none", success |-> FALSE]}
     ELSE {})

StoreWrites(iv, res, nxt, env) ==
    (IF NeedsStore(iv, res) /\ env.store_ok
     THEN {[error    |-> iv.error_history[Len(iv.error_history)].error,
            solution |-> StrategyFor(iv.attempt),
            success  |-> TRUE]}
     ELSE {})
    \cup
    (IF nxt.status = "failed"
     THEN {[error |-> CaughtError(iv, res), solution |-> "none", success |-> FALSE]}
     ELSE {})

\* what the environment can do during one attempt; the error store is only
\* called after a success that follows a failure (store_ok) and after the
\* last attempt failed (final_store_ok), so its answer is left out elsewhere
\* the knowledge search is only called by the web_search strategy
\* (searching), so its answer is left out elsewhere too
AttemptEnvs(tools, retried, last, searching) ==
    LET creations == SUBSET {k \in 1..Len(tools) : tools[k] \in VectorDbTools}
        finals    == IF last THEN BOOLEAN ELSE {TRUE}
        stores    == IF retried THEN BOOLEAN ELSE {TRUE}
        searches  == IF searching THEN SearchOutcomes ELSE {"found"}
    IN {[raises |-> TRUE, error |-> e, output |-> NoOutput, create_fail |-> cf,
         store_ok |-> TRUE, final_store_ok |-> fs, search |-> se] :
           e \in AttemptErrors, cf \in creations, fs \in finals, se \in searches}
       \cup
       {env \in
           {[raises |-> FALSE, error |-> "", output |-> o, create_fail |-> cf,
             store_ok |-> so, final_store_ok |-> fs, search |-> se] :
               o \in AttemptOutputs, cf \in creations, so \in stores, fs \in finals,
               se \in searches} :
           \* the store is not called after an output that is not classified
           \* successful, nor a second time after it has answered
           /\ ~_is_execution_successful(env.output) => env.store_ok
           /\ (_is_execution_successful(env.output) /\ env.store_ok) => env.final_store_ok}

(***************************************************************************)
(* State.                                                                  *)
(***************************************************************************)
VARIABLES
    agents,          \* workflow.agents: the unit ids, in declaration order
    edges,           \* workflow.edges
    agent_inputs,    \* agent.inputs of each unit (by position)
    agent_tools,     \* agent.required_tools of each unit (names, by position)
    max_retries,     \* settings.MAX_RETRY_ATTEMPTS
    pc,              \* position of execute_workflow
    validation,      \* result of validate_workflow
    sorted,          \* result of topological_sort (execution_levels)
    level_num,       \* level being executed (1-based)
    store_idx,       \* position in zip(agents_in_level, results)
    context,         \* ExecutionContext: agent_outputs and status
    db_exec,         \* the document of this run in the executions collection
    returned,        \* value returned by execute_workflow
    inv,             \* the invocations of the current level, by unit position
    collections,     \* collections existing in the vector stores
    error_solutions, \* documents written to the error_solutions collection
    dispatch_count,  \* history: how often each unit was handed to the Invoker
    unit_input,      \* history: the input each unit was dispatched with
    outcome,         \* history: what the invocation of each unit returned or raised
    allocated_ports, \* ServiceManager.allocated_ports
    active_services, \* ServiceManager.active_services, by service id
    listening,       \* operating system: who holds each port of the range
    deploys,         \* the deploy calls (one thread each): position and locals
    children,        \* the child processes started by the deploy calls
    last_call,       \* history: the last stop_service / cleanup_all call and its result
    reg_call,        \* a call of the ToolRegistry or of _provision_tools: its arguments
    reg_result,      \* what that call returned or raised
    workflow_doc,    \* the document of the graph in the workflows collection
    calls,           \* history: the approve / modify / execute requests and their answers
    script,          \* the file temp_exec.py of the upload directory
    runners          \* the execute_code_safely calls (one thread each): position and locals

run_vars == <<agents, edges, agent_inputs, agent_tools, max_retries, pc, validation,
              sorted, level_num, store_idx, context, db_exec, returned, inv,
              collections, error_solutions, dispatch_count, unit_input, outcome>>

port_vars == <<allocated_ports, active_services, listening, deploys, children,
               last_call>>

reg_vars == <<reg_call, reg_result>>

api_vars == <<workflow_doc, calls>>

exec_vars == <<script, runners>>

vars == <<run_vars, port_vars, reg_vars, api_vars, exec_vars>>

workflow_vars == <<agents, edges, agent_inputs, agent_tools, max_retries>>

(***************************************************************************)
(* Values stored in context.agent_outputs.                                 *)
(***************************************************************************)
Payload(kind) ==
    [kind |-> kind, value |-> NoOutput, error |-> "", status |-> "",
     entries |-> {}, list |-> <<>>]

ReservedKeys == {"files_context", "user_files", "error_memory", "deployed_services"}

\* lines 52-55
InitialOutputs ==
    [k \in ReservedKeys |->
        IF k = "files_context" THEN Payload("files_context")
        ELSE IF k = "user_files" THEN Payload("files")
        ELSE IF k = "error_memory" THEN Payload("error_memory")
        ELSE Payload("deployed_services")]

EmptyMap == [k \in {} |-> 0]

NoContext == [agent_outputs |-> EmptyMap, status |-> "pending"]

NoRecord == [exists |-> FALSE, agent_outputs |-> EmptyMap, status |-> "", ended |-> FALSE]

NoValidation == [called |-> FALSE, valid |-> FALSE, errors |-> <<>>, warnings |-> <<>>]

NotSorted == [called |-> FALSE, raised |-> FALSE, levels |-> <<>>]

NoReturn == [status |-> "none", final_output |-> Payload("none"), wrapped |-> FALSE,
             deployed_services |-> <<>>]

Validated(v) ==
    [called |-> TRUE, valid |-> v.valid, errors |-> v.errors, warnings |-> v.warnings]

Sorted(r) == [called |-> TRUE, raised |-> r.raised, levels |-> r.levels]

\* variant of Put that leaves the written key alone in the map
PutAlone(f, k, v) == [x \in {k} |-> v]

Put(f, k, v) == [x \in DOMAIN f \cup {k} |-> IF x = k THEN v ELSE f[x]]

\* ExecutionService._get_error_signature
Mentions(msg, word) ==
    <<word, msg>> \in {<<"KeyError", "KeyError: 'total'">>,
                       <<"not in index", "\"['total'] not in index\"">>}

First50(msg) ==
    IF msg = StoreError THEN "ServerSelectionTimeoutError: error store unreachab"
    ELSE msg

_get_error_signature(error_msg) ==
    IF Mentions(error_msg, "KeyError") THEN "KeyError_missing_columns"
    ELSE IF Mentions(error_msg, "AttributeError") /\ Mentions(error_msg, "applymap")
         THEN "AttributeError_applymap_deprecated"
    ELSE IF Mentions(error_msg, "not in index") THEN "KeyError_column_not_found"
    ELSE IF Mentions(error_msg, "trailing space") THEN "ValueError_trailing_spaces"
    ELSE First50(error_msg)

\* ExecutionService._build_agent_input
InputExcluded == {"user_data", "files_context", "error_memory"}

\* variant of _build_agent_input that passes no output of another unit
_build_agent_input_bare(refs, outputs) ==
    [error_guidance |-> IF "error_memory" \in DOMAIN outputs
                        THEN outputs["error_memory"].entries # {} ELSE FALSE,
     input_from     |-> EmptyMap]

_build_agent_input(refs, outputs) ==
    [error_guidance |-> IF "error_memory" \in DOMAIN outputs
                        THEN outputs["error_memory"].entries # {} ELSE FALSE,
     input_from     |-> [r \in {x \in refs : x \in DOMAIN outputs /\ x \notin InputExcluded}
                            |-> outputs[r]]]

NoInput == [error_guidance |-> FALSE, input_from |-> EmptyMap]

\* positions of the units of a level: [a for a in workflow.agents if a.id in agent_ids]
AgentsInLevel(ags, level) == {i \in 1..Len(ags) : Contains(level, ags[i])}

\* the same positions in list order
RECURSIVE SortedSeq(_)
SortedSeq(S) ==
    IF S = {} THEN <<>>
    ELSE LET m == CHOOSE x \in S : \A y \in S : x <= y
         IN <<m>> \o SortedSeq(S \ {m})

CurrentLevel == sorted.levels[level_num]

\* variant of AllTasksDone that returns as soon as one task is done
AnyTaskDone(ivs) == \E i \in DOMAIN ivs : Terminal(ivs[i])

\* asyncio.gather: every task of the level has returned or raised
AllTasksDone(ivs) == \A i \in DOMAIN ivs : Terminal(ivs[i])

\* the service entry detected in a successful output (lines 132-141)
UrlTokens == {"URL: http://localhost:8501", "URL: http://localhost:8502"}

DeployedEntry(agent_name, output) ==
    IF /\ output.form = "text"
       /\ HasPhrase(output, "deployed successfully")
       /\ output.tokens \cap UrlTokens # {}
    THEN <<[agent |-> agent_name,
            url   |-> CHOOSE u \in output.tokens \cap UrlTokens : TRUE,
            type  |-> IF HasPhrase(output, "streamlit") THEN "streamlit" ELSE "gradio"]>>
    ELSE <<>>

\* variant of RecordResult that stores nothing for a unit that did not succeed
RecordResultDropFailed(ctx, agent_id, result) ==
    LET outs == ctx.agent_outputs
    IN IF result.status # "completed"
       THEN [agent_outputs |-> outs, status |-> "failed"]
       ELSE [agent_outputs |->
                Put(Put(outs, agent_id,
                        [Payload("output") EXCEPT !.value = result.output]),
                    "deployed_services",
                    [outs["deployed_services"] EXCEPT !.list =
                        @ \o DeployedEntry(agent_id, result.output)]),
             status |-> ctx.status]

\* lines 106-141: agent_outputs and status after the result of one unit
RecordResult(ctx, agent_id, result) ==
    LET outs == ctx.agent_outputs
    IN IF result.status = "raised"
       THEN \* isinstance(result, Exception)
            [agent_outputs |->
                Put(Put(outs, agent_id,
                        [Payload("error") EXCEPT !.error = result.error,
                                                 !.status = "failed"]),
                    "error_memory",
                    [outs["error_memory"] EXCEPT !.entries =
                        {e \in @ : e.sig # _get_error_signature(result.error)}
                        \cup {[sig   |-> _get_error_signature(result.error),
                               error |-> result.error,
                               agent |-> agent_id]}]),
             status |-> "failed"]
       ELSE \* a returned dict, whatever its "status" entry says; the second
            \* json.loads finds nothing _parse_output has not already parsed
            [agent_outputs |->
                Put(Put(outs, agent_id,
                        [Payload("output") EXCEPT !.value = result.output]),
                    "deployed_services",
                    [outs["deployed_services"] EXCEPT !.list =
                        @ \o DeployedEntry(agent_id, result.output)]),
             status |-> ctx.status]

Preds(eds, u) == {eds[i].from : i \in {j \in 1..Len(eds) : eds[j].to = u}}

(***************************************************************************)
(* ExecutionService.execute_workflow                                       *)
(***************************************************************************)
\* variant of ValidateWorkflow that goes on whatever the validation answers
ValidateWorkflowUnchecked ==
    /\ pc = "start"
    /\ validation' = Validated(validate_workflow(agents, edges))
    /\ pc' = "validated"
    /\ UNCHANGED <<port_vars, reg_vars, api_vars, exec_vars>>
    /\ UNCHANGED <<workflow_vars, sorted, level_num, store_idx, context, db_exec,
                   returned, inv, collections, error_solutions, dispatch_count,
                   unit_input, outcome>>

\* lines 30-37
ValidateWorkflow ==
    /\ pc = "start"
    /\ validation' = Validated(validate_workflow(agents, edges))
    /\ pc' = IF validation'.valid THEN "validated" ELSE "rejected"
    /\ UNCHANGED <<port_vars, reg_vars, api_vars, exec_vars>>
    /\ UNCHANGED <<workflow_vars, sorted, level_num, store_idx, context, db_exec,
                   returned, inv, collections, error_solutions, dispatch_count,
                   unit_input, outcome>>

\* lines 39-68: context, insert_one, topological_sort
BeginExecution ==
    /\ pc = "validated"
    /\ context' = [agent_outputs |-> InitialOutputs, status |-> "running"]
    /\ db_exec' = [exists |-> TRUE, agent_outputs |-> InitialOutputs,
                   status |-> "running", ended |-> FALSE]
    /\ sorted' = Sorted(topological_sort(agents, edges))
    /\ level_num' = 1
    /\ pc' = IF sorted'.raised THEN "rejected"
             ELSE IF sorted'.levels = <<>> THEN "finalize" ELSE "dispatch"
    /\ UNCHANGED <<port_vars, reg_vars, api_vars, exec_vars>>
    /\ UNCHANGED <<workflow_vars, validation, store_idx, returned, inv, collections,
                   error_solutions, dispatch_count, unit_input, outcome>>

\* lines 82-103: build the inputs and hand every unit of the level to the Invoker
DispatchLevel ==
    /\ pc = "dispatch"
    /\ LET idxs == AgentsInLevel(agents, CurrentLevel)
       IN /\ inv' = [i \in idxs |-> InvocationOf(agents[i])]
          /\ dispatch_count' = [i \in DOMAIN dispatch_count |->
                                  IF i \in idxs THEN dispatch_count[i] + 1
                                  ELSE dispatch_count[i]]
          /\ unit_input' = [i \in DOMAIN unit_input |->
                              IF i \in idxs
                              THEN _build_agent_input(agent_inputs[i], context.agent_outputs)
                              ELSE unit_input[i]]
    /\ pc' = "running"
    /\ UNCHANGED <<port_vars, reg_vars, api_vars, exec_vars>>
    /\ UNCHANGED <<workflow_vars, validation, sorted, level_num, store_idx, context,
                   db_exec, returned, collections, error_solutions, outcome>>

\* one attempt of the invocation of unit i (execute_agent_with_retry, lines 63-149)
Attempt(i) ==
    /\ pc = "running"
    /\ i \in DOMAIN inv
    /\ inv[i].status = "running"
    /\ \E env \in AttemptEnvs(agent_tools[i], inv[i].error_history # <<>>,
                               inv[i].attempt >= EffectiveMaxRetries(max_retries),
                               StrategyFor(inv[i].attempt) = "web_search"
                                   /\ inv[i].error_history # <<>>) :
          LET res == execute_agent(agents[i], agent_tools[i], inv[i].attempt, env)
              nxt == RetryStep(inv[i], agents[i], agent_tools[i], max_retries, env)
          IN /\ inv' = [inv EXCEPT ![i] = nxt]
             /\ collections' = (collections \cup res.created) \ res.deleted
             /\ error_solutions' = error_solutions \cup StoreWrites(inv[i], res, nxt, env)
             /\ outcome' = [outcome EXCEPT ![i] =
                               IF Terminal(nxt) THEN nxt.result ELSE @]
    /\ UNCHANGED <<port_vars, reg_vars, api_vars, exec_vars>>
    /\ UNCHANGED <<workflow_vars, pc, validation, sorted, level_num, store_idx,
                   context, db_exec, returned, dispatch_count, unit_input>>

\* line 103: results = await asyncio.gather(*tasks, return_exceptions=True)
GatherDone ==
    /\ pc = "running"
    /\ AllTasksDone(inv)
    /\ pc' = "store"
    /\ store_idx' = 1
    /\ UNCHANGED <<port_vars, reg_vars, api_vars, exec_vars>>
    /\ UNCHANGED <<workflow_vars, validation, sorted, level_num, context, db_exec,
                   returned, inv, collections, error_solutions, dispatch_count,
                   unit_input, outcome>>

\* variant of StoreResult without the update_one of lines 143-150
StoreResultUnsaved ==
    /\ pc = "store"
    /\ LET order == SortedSeq(DOMAIN inv)
           i     == order[store_idx]
           ctx   == RecordResult(context, agents[i], inv[i].result)
       IN /\ context' = ctx
          /\ UNCHANGED db_exec
          /\ IF store_idx < Len(order)
             THEN /\ store_idx' = store_idx + 1
                  /\ UNCHANGED <<pc, level_num, inv>>
             ELSE /\ store_idx' = 0
                  /\ inv' = [k \in {} |-> NewInvocation]
                  /\ IF level_num < Len(sorted.levels)
                     THEN /\ level_num' = level_num + 1
                          /\ pc' = "dispatch"
                     ELSE /\ level_num' = level_num
                          /\ pc' = "finalize"
    /\ UNCHANGED <<port_vars, reg_vars, api_vars, exec_vars>>
    /\ UNCHANGED <<workflow_vars, validation, sorted, returned, collections,
                   error_solutions, dispatch_count, unit_input, outcome>>

\* lines 106-150: one iteration of the loop over zip(agents_in_level, results)
StoreResult ==
    /\ pc = "store"
    /\ LET order == SortedSeq(DOMAIN inv)
           i     == order[store_idx]
           ctx   == RecordResult(context, agents[i], inv[i].result)
       IN /\ context' = ctx
          /\ db_exec' = [db_exec EXCEPT !.agent_outputs = ctx.agent_outputs,
                                        !.status = ctx.status]
          /\ IF store_idx < Len(order)
             THEN /\ store_idx' = store_idx + 1
                  /\ UNCHANGED <<pc, level_num, inv>>
             ELSE /\ store_idx' = 0
                  /\ inv' = [k \in {} |-> NewInvocation]
                  /\ IF level_num < Len(sorted.levels)
                     THEN /\ level_num' = level_num + 1
                          /\ pc' = "dispatch"
                     ELSE /\ level_num' = level_num
                          /\ pc' = "finalize"
    /\ UNCHANGED <<port_vars, reg_vars, api_vars, exec_vars>>
    /\ UNCHANGED <<workflow_vars, validation, sorted, returned, collections,
                   error_solutions, dispatch_count, unit_input, outcome>>

\* variant of Finalize that returns the output of the last unit of the last level
FinalizeLastLevel ==
    /\ pc = "finalize"
    /\ LET status   == IF context.status # "failed" THEN "completed" ELSE context.status
           last     == sorted.levels[Len(sorted.levels)]
           final_id == last[Len(last)]
           outs     == context.agent_outputs
           services == outs["deployed_services"].list
       IN /\ context' = [context EXCEPT !.status = status]
          /\ db_exec' = [db_exec EXCEPT !.status = status, !.ended = TRUE]
          /\ returned' = [status |-> status,
                          final_output |-> IF final_id \in DOMAIN outs THEN outs[final_id]
                                           ELSE Payload("No output"),
                          wrapped |-> services # <<>>,
                          deployed_services |-> services]
    /\ pc' = "done"
    /\ UNCHANGED <<port_vars, reg_vars, api_vars, exec_vars>>
    /\ UNCHANGED <<workflow_vars, validation, sorted, level_num, store_idx, inv,
                   collections, error_solutions, dispatch_count, unit_input, outcome>>

\* variant of FinalStatus that marks every run complete
FinalStatusCompleted(status) == "completed"

\* lines 152-154: if context.status != "failed": context.status = "completed"
FinalStatus(status) == IF status # "failed" THEN "completed" ELSE status

\* lines 152-190
Finalize ==
    /\ pc = "finalize"
    /\ LET status   == FinalStatus(context.status)
           final_id == agents[Len(agents)]
           outs     == context.agent_outputs
           services == outs["deployed_services"].list
       IN /\ context' = [context EXCEPT !.status = status]
          /\ db_exec' = [db_exec EXCEPT !.status = status, !.ended = TRUE]
          /\ returned' = [status |-> status,
                          final_output |-> IF final_id \in DOMAIN outs THEN outs[final_id]
                                           ELSE Payload("No output"),
                          wrapped |-> services # <<>>,
                          deployed_services |-> services]
    /\ pc' = "done"
    /\ UNCHANGED <<port_vars, reg_vars, api_vars, exec_vars>>
    /\ UNCHANGED <<workflow_vars, validation, sorted, level_num, store_idx, inv,
                   collections, error_solutions, dispatch_count, unit_input, outcome>>

(***************************************************************************)
(* Direct calls of the resolver (validation endpoint, approval).           *)
(***************************************************************************)
SchedSort ==
    /\ pc = "sched"
    /\ ~sorted.called
    /\ sorted' = Sorted(topological_sort(agents, edges))
    /\ UNCHANGED <<port_vars, reg_vars, api_vars, exec_vars>>
    /\ UNCHANGED <<workflow_vars, pc, validation, level_num, store_idx, context,
                   db_exec, returned, inv, collections, error_solutions,
                   dispatch_count, unit_input, outcome>>

SchedValidate ==
    /\ pc = "sched"
    /\ ~validation.called
    /\ validation' = Validated(validate_workflow(agents, edges))
    /\ UNCHANGED <<port_vars, reg_vars, api_vars, exec_vars>>
    /\ UNCHANGED <<workflow_vars, pc, sorted, level_num, store_idx, context,
                   db_exec, returned, inv, collections, error_solutions,
                   dispatch_count, unit_input, outcome>>

(***************************************************************************)
(* ServiceManager: port allocation and deployment.                         *)
(* Every deploy call runs on a thread of its own (the tool functions run   *)
(* asyncio.run on an executor thread), so the statements of                *)
(* _find_available_port of different calls interleave.                     *)
(***************************************************************************)
\* self.port_range = range(8501, 8600), cut down to PoolSize ports
FirstPort == 8501

PortRange == FirstPort..(FirstPort + PoolSize - 1)

Deployers == 1..NumDeployers

ServiceKinds == {"streamlit", "gradio", "flask"}

Free == [kind |-> "free", who |-> 0]

NoDeploy == [pc |-> "idle", cand |-> 0, port |-> 0, kind |-> "none", error |-> "none"]

\* connect_ex(('localhost', port)) == 0: some process accepts connections
Accepting(port) == listening[port].kind \in {"child", "external"}

\* a deploy tool is called: deploy_streamlit / deploy_gradio / deploy_flask
StartDeploy(d) ==
    /\ deploys[d].pc = "idle"
    /\ \E k \in ServiceKinds :
          deploys' = [deploys EXCEPT ![d] = [NoDeploy EXCEPT !.pc = "check",
                                                            !.cand = FirstPort,
                                                            !.kind = k]]
    /\ UNCHANGED <<allocated_ports, active_services, listening, children>>
    /\ UNCHANGED <<run_vars, reg_vars, api_vars, exec_vars, last_call>>

\* _find_available_port, lines 22-24 and 35: next candidate, the allocated test
CheckAllocated(d) ==
    /\ deploys[d].pc = "check"
    /\ deploys' = [deploys EXCEPT ![d] =
            IF @.cand \notin PortRange
            THEN [@ EXCEPT !.pc = "failed", !.error = "RuntimeError: No available ports"]
            ELSE IF @.cand \in allocated_ports
            THEN [@ EXCEPT !.cand = @ + 1]
            ELSE [@ EXCEPT !.pc = "bind"]]
    /\ UNCHANGED <<allocated_ports, active_services, listening, children>>
    /\ UNCHANGED <<run_vars, reg_vars, api_vars, exec_vars, last_call>>

\* lines 27-29 and 32-33: s.bind(('localhost', port))
BindProbe(d) ==
    /\ deploys[d].pc = "bind"
    /\ LET port == deploys[d].cand
       IN IF listening[port] = Free
          THEN /\ listening' = [listening EXCEPT ![port] = [kind |-> "probe", who |-> d]]
               /\ deploys' = [deploys EXCEPT ![d].pc = "commit"]
          ELSE \* OSError: continue with the next port
               /\ listening' = listening
               /\ deploys' = [deploys EXCEPT ![d].pc = "check", ![d].cand = @ + 1]
    /\ UNCHANGED <<allocated_ports, active_services, children>>
    /\ UNCHANGED <<run_vars, reg_vars, api_vars, exec_vars, last_call>>

\* line 30: self.allocated_ports.add(port)
CommitPort(d) ==
    /\ deploys[d].pc = "commit"
    /\ allocated_ports' = allocated_ports \cup {deploys[d].cand}
    /\ deploys' = [deploys EXCEPT ![d].pc = "close"]
    /\ UNCHANGED <<active_services, listening, children>>
    /\ UNCHANGED <<run_vars, reg_vars, api_vars, exec_vars, last_call>>

\* line 31: return port; leaving the with block closes the probe socket
CloseProbe(d) ==
    /\ deploys[d].pc = "close"
    /\ listening' = [listening EXCEPT ![deploys[d].cand] = Free]
    /\ deploys' = [deploys EXCEPT ![d].pc = "launch", ![d].port = deploys[d].cand]
    /\ UNCHANGED <<allocated_ports, active_services, children>>
    /\ UNCHANGED <<run_vars, reg_vars, api_vars, exec_vars, last_call>>

\* deploy_*: write the app file and subprocess.Popen; Popen raises when the
\* program cannot be started
Launch(d) ==
    /\ deploys[d].pc = "launch"
    /\ \E started \in BOOLEAN :
          IF started
          THEN /\ children' = [children EXCEPT ![d] = "starting"]
               /\ deploys' = [deploys EXCEPT ![d].pc = "wait"]
          ELSE /\ children' = children
               /\ deploys' = [deploys EXCEPT ![d].pc = "failed",
                                             ![d].error = "FileNotFoundError"]
    /\ UNCHANGED <<allocated_ports, active_services, listening>>
    /\ UNCHANGED <<run_vars, reg_vars, api_vars, exec_vars, last_call>>

\* the child process binds its port and listens, or exits when the port is
\* taken (or for a reason of its own)
ChildStarts(d) ==
    /\ children[d] = "starting"
    /\ LET port == deploys[d].port
       IN \/ /\ listening[port] = Free
             /\ listening' = [listening EXCEPT ![port] = [kind |-> "child", who |-> d]]
             /\ children' = [children EXCEPT ![d] = "listening"]
          \/ /\ listening' = listening
             /\ children' = [children EXCEPT ![d] = "exited"]
    /\ UNCHANGED <<allocated_ports, active_services, deploys>>
    /\ UNCHANGED <<run_vars, reg_vars, api_vars, exec_vars, last_call>>

\* _wait_for_service returned and lines 75-87: the service is recorded
ServiceReady(d) ==
    /\ deploys[d].pc = "wait"
    /\ Accepting(deploys[d].port)
    /\ active_services' =
          [x \in DOMAIN active_services \cup {d} |->
              IF x = d THEN [type |-> deploys[d].kind, port |-> deploys[d].port,
                             pid |-> d, status |-> "running"]
              ELSE active_services[x]]
    /\ deploys' = [deploys EXCEPT ![d].pc = "done"]
    /\ UNCHANGED <<allocated_ports, listening, children>>
    /\ UNCHANGED <<run_vars, reg_vars, api_vars, exec_vars, last_call>>

\* _wait_for_service, line 213: nothing accepted connections for 30 seconds
ServiceTimeout(d) ==
    /\ deploys[d].pc = "wait"
    /\ ~Accepting(deploys[d].port)
    /\ deploys' = [deploys EXCEPT ![d].pc = "failed", ![d].error = "TimeoutError"]
    /\ UNCHANGED <<allocated_ports, active_services, listening, children>>
    /\ UNCHANGED <<run_vars, reg_vars, api_vars, exec_vars, last_call>>

\* a child process ends by itself (the application crashes or is killed
\* from outside); the operating system closes its socket
ChildExits(d) ==
    /\ children[d] \in {"starting", "listening"}
    /\ children' = [children EXCEPT ![d] = "exited"]
    /\ listening' = [p \in PortRange |->
                        IF listening[p] = [kind |-> "child", who |-> d] THEN Free
                        ELSE listening[p]]
    /\ UNCHANGED <<allocated_ports, active_services, deploys>>
    /\ UNCHANGED <<run_vars, reg_vars, api_vars, exec_vars, last_call>>

Running(child) == child \in {"starting", "listening"}

\* what the operating system answers to one stop_service call: "prompt", the
\* process is found and ends within the 5 seconds of process.wait; "adverse",
\* a running process does not end in time (TimeoutExpired) and an ended one
\* is no longer known (NoSuchProcess)
StopEnvs == {"prompt", "adverse"}

\* ServiceManager.stop_service on the manager state
\* m = [allocated, services, children, listening]; ok is the returned bool
stop_service(m, service_id, env) ==
    IF service_id \notin DOMAIN m.services
    THEN [m EXCEPT !.ok = FALSE]
    ELSE LET service == m.services[service_id]
             child   == m.children[service.pid]
             raises  == \/ child = "reaped"
                        \/ env = "adverse"
         IN IF raises
            THEN \* except branch: nothing is released
                 [m EXCEPT !.ok = FALSE]
            ELSE [allocated |-> m.allocated \ {service.port},
                  services  |-> [x \in DOMAIN m.services \ {service_id} |-> m.services[x]],
                  children  |-> [m.children EXCEPT ![service.pid] = "reaped"],
                  listening |-> [p \in PortRange |->
                                    IF m.listening[p] = [kind |-> "child", who |-> service.pid]
                                    THEN Free ELSE m.listening[p]],
                  ok        |-> TRUE]

ManagerState ==
    [allocated |-> allocated_ports, services |-> active_services,
     children |-> children, listening |-> listening, ok |-> TRUE]

SetManager(m) ==
    /\ allocated_ports' = m.allocated
    /\ active_services' = m.services
    /\ children' = m.children
    /\ listening' = m.listening

\* DELETE /services/{service_id}
StopService(service_id) ==
    /\ service_id \in DOMAIN active_services
    /\ \E env \in StopEnvs :
          LET m == stop_service(ManagerState, service_id, env)
          IN /\ SetManager(m)
             /\ last_call' = [op |-> "stop", id |-> service_id, ok |-> m.ok]
    /\ UNCHANGED deploys
    /\ UNCHANGED <<run_vars, reg_vars, api_vars, exec_vars>>

\* the loop of cleanup_all over the service ids
RECURSIVE StopEach(_, _, _)
StopEach(m, service_ids, envs) ==
    IF service_ids = <<>> THEN m
    ELSE StopEach(stop_service(m, Head(service_ids), envs[Head(service_ids)]),
                  Tail(service_ids), envs)

\* ServiceManager.cleanup_all (host shutdown, POST /services/cleanup)
CleanupAll ==
    /\ \E envs \in [DOMAIN active_services -> StopEnvs] :
          SetManager(StopEach(ManagerState, SortedSeq(DOMAIN active_services), envs))
    /\ last_call' = [op |-> "cleanup", id |-> 0, ok |-> TRUE]
    /\ UNCHANGED deploys
    /\ UNCHANGED <<run_vars, reg_vars, api_vars, exec_vars>>

NoCall == [op |-> "none", id |-> 0, ok |-> TRUE]

IdlePorts ==
    /\ allocated_ports = {}
    /\ active_services = [x \in {} |-> 0]
    /\ listening = [p \in PortRange |-> Free]
    /\ deploys = [d \in Deployers |-> NoDeploy]
    /\ children = [d \in Deployers |-> "none"]
    /\ last_call = NoCall

(***************************************************************************)
(* The workflow routes: approve, modify, execute.  One document of the     *)
(* workflows collection is followed; execute_workflow itself writes the    *)
(* executions collection only, its run is the subject of Spec.             *)
(***************************************************************************)
NoWorkflowDoc == [agents |-> <<>>, edges |-> <<>>, status |-> "none"]

IdleApi == workflow_doc = NoWorkflowDoc /\ calls = <<>>

\* graphs the generator answers with, or that are imported: a single unit, a
\* chain, two units in a cycle, a self-loop behind a source, an edge to an
\* id that is no unit
ApiGraphs ==
    {<<<<"a">>, <<>>>>,
     <<<<"a", "b">>, <<[from |-> "a", to |-> "b"]>>>>,
     <<<<"a", "b">>, <<[from |-> "a", to |-> "b"], [from |-> "b", to |-> "a"]>>>>,
     <<<<"a", "b">>, <<[from |-> "a", to |-> "b"], [from |-> "b", to |-> "b"]>>>>,
     <<<<"a", "b">>, <<[from |-> "a", to |-> "c"]>>>>}

\* WorkflowGraph(..., status="draft") of generate_workflow and of /import
DraftOf(graph) == [agents |-> graph[1], edges |-> graph[2], status |-> "draft"]

Answer(op, code) == [op |-> op, code |-> code]

\* WorkflowService.approve_workflow: the document after update_one
approve_workflow(doc) == [doc EXCEPT !.status = "approved"]

\* variant of modify_workflow that keeps the status
modify_workflow_keep_status(doc, graph) ==
    [doc EXCEPT !.agents = graph[1], !.edges = graph[2]]

\* WorkflowService.modify_workflow: the document after update_one, graph is
\* what the generator answered
modify_workflow(doc, graph) ==
    [agents |-> graph[1], edges |-> graph[2], status |-> "draft"]

\* POST /workflows/approve
ApproveWorkflow ==
    /\ pc = "api"
    /\ Len(calls) < MaxCalls
    /\ workflow_doc' = approve_workflow(workflow_doc)
    /\ calls' = Append(calls, Answer("approve", 200))
    /\ UNCHANGED <<run_vars, port_vars, reg_vars, exec_vars>>

\* POST /workflows/modify; the generator answers with a graph or raises
ModifyWorkflow ==
    /\ pc = "api"
    /\ Len(calls) < MaxCalls
    /\ \/ /\ \E graph \in ApiGraphs :
                workflow_doc' = modify_workflow(workflow_doc, graph)
          /\ calls' = Append(calls, Answer("modify", 200))
       \/ /\ UNCHANGED workflow_doc
          /\ calls' = Append(calls, Answer("modify", 500))
    /\ UNCHANGED <<run_vars, port_vars, reg_vars, exec_vars>>

\* POST /executions/execute: 400 unless the status is approved, 404 for the
\* ValueError of a failed validation, 200 when the run returned
ExecuteWorkflow ==
    /\ pc = "api"
    /\ Len(calls) < MaxCalls
    /\ calls' = Append(calls,
          Answer("execute",
                 IF workflow_doc.status # "approved" THEN 400
                 ELSE IF ~validate_workflow(workflow_doc.agents, workflow_doc.edges).valid
                 THEN 404
                 ELSE 200))
    /\ UNCHANGED <<workflow_doc, run_vars, port_vars, reg_vars, exec_vars>>

(***************************************************************************)
(* execute_code_safely (code_executor_tools.py).  The agents of a level    *)
(* run as tasks of one asyncio.gather, and the executor runs the           *)
(* synchronous tool function of each on a worker thread, so the            *)
(* statements of two calls interleave.  Every call uses the same path,     *)
(* UPLOAD_DIR/temp_exec.py.                                                 *)
(***************************************************************************)
Runners == 1..NumRunners

\* the texts handed to the tool
Codes == {"code_a", "code_b"}

\* the path has no file
Absent == "absent"

\* the file after open(script_path, 'w'): it exists and is empty
Truncated == ""

ExecResult(kind, text) == [kind |-> kind, text |-> text]

NoRunner ==
    [pc |-> "idle", code |-> "", executed |-> "none", result |-> ExecResult("none", "")]

IdleExec ==
    /\ script = Absent
    /\ runners = [r \in Runners |-> NoRunner]

\* what the call returns for the text the interpreter was started on:
\* stdout of the script, 'Success (no output)' for an empty file, and the
\* stderr of the interpreter when the file is not there
OutputOf(text) ==
    IF text = Absent THEN ExecResult("Error", "can't open file")
    ELSE IF text = Truncated THEN ExecResult("Success (no output)", "")
    ELSE ExecResult("Output", text)

\* the tool is called with a text
StartExec(r) ==
    /\ pc = "exec"
    /\ runners[r].pc = "idle"
    /\ \E code \in Codes :
          runners' = [runners EXCEPT ![r] = [NoRunner EXCEPT !.pc = "open", !.code = code]]
    /\ UNCHANGED script
    /\ UNCHANGED <<run_vars, port_vars, reg_vars, api_vars>>

\* line 320: open(script_path, 'w') creates or empties the file
OpenScript(r) ==
    /\ pc = "exec"
    /\ runners[r].pc = "open"
    /\ script' = Truncated
    /\ runners' = [runners EXCEPT ![r].pc = "write"]
    /\ UNCHANGED <<run_vars, port_vars, reg_vars, api_vars>>

\* line 321: f.write(code) and the close of the with block; when the path
\* was removed in between, the text goes to the unlinked file
WriteScript(r) ==
    /\ pc = "exec"
    /\ runners[r].pc = "write"
    /\ script' = IF script = Absent THEN Absent ELSE runners[r].code
    /\ runners' = [runners EXCEPT ![r].pc = "run"]
    /\ UNCHANGED <<run_vars, port_vars, reg_vars, api_vars>>

\* lines 326-333: subprocess.run; the interpreter reads the path when it
\* starts
RunScript(r) ==
    /\ pc = "exec"
    /\ runners[r].pc = "run"
    /\ runners' = [runners EXCEPT ![r].pc = "exists",
                                  ![r].executed = script,
                                  ![r].result = OutputOf(script)]
    /\ UNCHANGED script
    /\ UNCHANGED <<run_vars, port_vars, reg_vars, api_vars>>

\* line 335: if os.path.exists(script_path); without the file the call
\* returns (lines 338-341)
ScriptExists(r) ==
    /\ pc = "exec"
    /\ runners[r].pc = "exists"
    /\ runners' = [runners EXCEPT ![r].pc = IF script = Absent THEN "done" ELSE "remove"]
    /\ UNCHANGED script
    /\ UNCHANGED <<run_vars, port_vars, reg_vars, api_vars>>

\* line 336: os.remove(script_path); FileNotFoundError when the file has
\* gone since the test, which the except branch turns into the returned
\* text (lines 343-346)
RemoveScript(r) ==
    /\ pc = "exec"
    /\ runners[r].pc = "remove"
    /\ script' = Absent
    /\ runners' = [runners EXCEPT ![r].pc = "done",
                                  ![r].result = IF script = Absent
                                                THEN ExecResult("Error", "FileNotFoundError")
                                                ELSE @]
    /\ UNCHANGED <<run_vars, port_vars, reg_vars, api_vars>>

(***************************************************************************)
(* ToolRegistry: names of vector collections.  A text is a sequence of     *)
(* characters, a character is given by its class: "a" a letter or digit,   *)
(* "_", ".", "-", and "/" any character outside [a-zA-Z0-9._-].            *)
(***************************************************************************)
Chars == {"a", "_", ".", "-", "/"}

AllowedChars == {"a", "_", ".", "-"}

Alnum(c) == c = "a"

Pad(n) == [i \in 1..n |-> "a"]

MaxNameLen == 63

MinNameLen == 3

SuffixLen == 8

\* uuid.uuid4().hex[:8]
Hex8 == Pad(SuffixLen)

\* re.sub(r'[^a-zA-Z0-9._-]', '_', name)
ReplaceDisallowed(name) ==
    [i \in 1..Len(name) |-> IF name[i] \in AllowedChars THEN name[i] ELSE "_"]

\* re.sub(r'^[^a-zA-Z0-9]+|[^a-zA-Z0-9]+$', '', sanitized)
StripEnds(name) ==
    LET idx == {i \in 1..Len(name) : Alnum(name[i])}
    IN IF idx = {} THEN <<>>
       ELSE SubSeq(name, CHOOSE i \in idx : \A j \in idx : i <= j,
                         CHOOSE i \in idx : \A j \in idx : j <= i)

\* re.sub(r'_+', '_', sanitized)
RECURSIVE CollapseUnderscores(_)
CollapseUnderscores(name) ==
    IF Len(name) < 2 THEN name
    ELSE IF name[1] = "_" /\ name[2] = "_" THEN CollapseUnderscores(Tail(name))
    ELSE <<name[1]>> \o CollapseUnderscores(Tail(name))

\* ToolRegistry._sanitize_collection_name
_sanitize_collection_name(name) ==
    LET replaced  == ReplaceDisallowed(name)
        stripped  == StripEnds(replaced)
        collapsed == CollapseUnderscores(stripped)
        prefixed  == IF collapsed = <<>> \/ ~Alnum(collapsed[1])
                     THEN <<"a", "a", "a", "_">> \o collapsed    \* 'col_'
                     ELSE collapsed
        truncated == IF Len(prefixed) > MaxNameLen
                     THEN SubSeq(prefixed, 1, MaxNameLen)
                     ELSE prefixed
    IN IF Len(truncated) < MinNameLen
       THEN truncated \o <<"_", "a", "a">>                       \* '_db'
       ELSE truncated

\* ChromaDBStore.create_collection / FAISSStore.create_collection: the name
\* of the collection that is created
create_collection(name) == name \o <<"_">> \o Hex8

\* ToolRegistry._provision_vector_db: the collection_name it returns
_provision_vector_db(agent_id, purpose) ==
    LET base_name      == agent_id \o <<"_">> \o purpose
        sanitized_name == _sanitize_collection_name(base_name)
        with_suffix    == sanitized_name \o <<"_">> \o Hex8
    IN create_collection(_sanitize_collection_name(with_suffix))

\* owner ids and purposes of the calls that are checked
AgentIdTexts == {<<"a">>, <<"a", "a", "a", "a", "a", "/", "a">>}

PurposeTexts ==
    {Pad(k) \o mark \o tail :
        k \in 0..MaxPad, mark \in SeqsUpTo(Chars, MaxMarkLen), tail \in {<<>>, <<"a">>}}
    \cup {Pad(6) \o <<"/">> \o Pad(5)}

KnownTools ==
    PredefinedTools \cup VectorDbTools \cup McpTools
        \cup {"python_executor", "deploy_streamlit", "deploy_gradio"}

\* one call of _provision_vector_db
ProvisionVectorDb ==
    /\ pc = "tools"
    /\ reg_call.op = "_provision_vector_db"
    /\ reg_result.op = "none"
    /\ reg_result' = [op |-> "_provision_vector_db",
                      collection_name |-> _provision_vector_db(reg_call.agent_id,
                                                               reg_call.purpose)]
    /\ UNCHANGED <<run_vars, port_vars, api_vars, exec_vars, reg_call>>

\* one call of ToolRegistry.provision_tool
ProvisionTool ==
    /\ pc = "tools"
    /\ reg_call.op = "provision_tool"
    /\ reg_result.op = "none"
    /\ reg_result' = [op |-> "provision_tool",
                      config |-> provision_tool(reg_call.tool_name, "a", 1, 1,
                                                reg_call.create_ok)]
    /\ UNCHANGED <<run_vars, port_vars, api_vars, exec_vars, reg_call>>

\* one call of DynamicAgentExecutor._provision_tools
ProvisionTools ==
    /\ pc = "tools"
    /\ reg_call.op = "_provision_tools"
    /\ reg_result.op = "none"
    /\ reg_result' = [op |-> "_provision_tools",
                      provisioned |-> _provision_tools("a", reg_call.tools, 1,
                                                       reg_call.create_fail),
                      warned |-> ProvisionWarnings("a", reg_call.tools, 1,
                                                   reg_call.create_fail)]
    /\ UNCHANGED <<run_vars, port_vars, api_vars, exec_vars, reg_call>>

\* ChromaDBStore.delete_collection prints the error of the client and
\* returns (chromadb_store.py lines 70-74); FAISSStore.delete_collection
\* removes the index from its dict (faiss_store.py lines 75-77)
DeleteCanFail(tool) == tool.type = "vector_db" /\ tool.tool_name = "chromadb"

\* ToolRegistry.cleanup_tools called on the list _provision_tools returned,
\* as step 8 of execute_agent does: delete_calls are the collections handed
\* to delete_collection, live the positions of the entries whose resource
\* is still there afterwards
CleanupTools ==
    /\ pc = "tools"
    /\ reg_result.op = "_provision_tools"
    /\ LET provisioned == reg_result.provisioned
           called      == cleanup_tools(provisioned)
       IN \E failed \in SUBSET {k \in 1..Len(provisioned) :
                                    DeleteCanFail(provisioned[k])} :
             LET gone == called \ {provisioned[k].collection : k \in failed}
             IN reg_result' = [op |-> "cleanup_tools",
                               provisioned |-> provisioned,
                               delete_calls |-> called,
                               delete_failed |-> failed,
                               live |-> {k \in 1..Len(provisioned) :
                                            provisioned[k].collection \notin gone}]
    /\ UNCHANGED <<run_vars, port_vars, api_vars, exec_vars, reg_call>>

NoRegistryCall == [op |-> "none"]

IdleRegistry ==
    /\ reg_call = NoRegistryCall
    /\ reg_result = NoRegistryCall

(***************************************************************************)
(* Initial states and specifications.                                      *)
(***************************************************************************)
Diamond ==
    <<<<"a", "b", "c", "d">>,
      <<[from |-> "a", to |-> "b"], [from |-> "a", to |-> "c"],
        [from |-> "b", to |-> "d"], [from |-> "c", to |-> "d"]>>>>

\* the order of the edges does not matter to a run (the units of a level are
\* taken in declaration order), so edge lists are taken in one fixed order
EdgeRank(e) == 3 * IdIndex(e.from) + IdIndex(e.to)

OrderedEdgeLists ==
    {eds \in SeqsUpTo(EdgeRecs, MaxRunEdges) :
        \A i \in 1..(Len(eds) - 1) : EdgeRank(eds[i]) <= EdgeRank(eds[i + 1])}

RunWorkflows ==
    {<<ags, eds>> : ags \in AgentLists, eds \in OrderedEdgeLists} \cup {Diamond}

\* workflows that are also run with attempt limits above 1: one unit, two
\* units of one level, two units of two levels
RetryRunWorkflows ==
    {<<<<"a">>, <<>>>>,
     <<<<"a", "b">>, <<>>>>,
     <<<<"a", "b">>, <<[from |-> "a", to |-> "b"]>>>>}

\* required_tools of the single-unit invocations: without and with a
\* requirement that creates a vector index
PlainToolLists == {<<>>, <<"rag_builder", "websearch">>}

IndexToolLists == {<<"chromadb">>, <<"spreadsheet", "faiss">>}

\* everything execute_workflow has not touched yet
IdleRun ==
    /\ validation = NoValidation
    /\ sorted = NotSorted
    /\ level_num = 0
    /\ store_idx = 0
    /\ context = NoContext
    /\ db_exec = NoRecord
    /\ returned = NoReturn
    /\ inv = [k \in {} |-> NewInvocation]
    /\ collections = {}
    /\ error_solutions = {}
    /\ dispatch_count = [i \in 1..Len(agents) |-> 0]
    /\ unit_input = [i \in 1..Len(agents) |-> NoInput]
    /\ outcome = [i \in 1..Len(agents) |-> NoResult]

\* every workflow runs with attempt limit 1, a few also with higher limits;
\* a unit declares every unit id and "user_data" as its inputs, so that ids of
\* earlier, of the same and of later levels are all among its declared inputs
Init ==
    /\ \/ /\ \E wf \in RunWorkflows : agents = wf[1] /\ edges = wf[2]
          /\ max_retries = 1
       \/ /\ \E wf \in RetryRunWorkflows : agents = wf[1] /\ edges = wf[2]
          /\ max_retries \in 2..MaxRunRetries
    /\ agent_inputs = [i \in 1..Len(agents) |-> Range(agents) \cup {"user_data"}]
    /\ agent_tools = [i \in 1..Len(agents) |-> <<>>]
    /\ pc = "start"
    /\ IdleRun
    /\ IdlePorts
    /\ IdleRegistry
    /\ IdleApi
    /\ IdleExec

Next ==
    \/ ValidateWorkflow
    \/ BeginExecution
    \/ DispatchLevel
    \/ \E i \in 1..Len(agents) : Attempt(i)
    \/ GatherDone
    \/ StoreResult
    \/ Finalize

Spec == Init /\ [][Next]_vars

\* one unit, every attempt limit, units that require tools
InitRetry ==
    /\ agents = <<"a">>
    /\ edges \in {<<>>, <<[from |-> "a", to |-> "a"]>>}
    /\ agent_inputs = [i \in 1..Len(agents) |-> {"user_data"}]
    /\ \/ /\ \E tl \in PlainToolLists : agent_tools = [i \in 1..Len(agents) |-> tl]
          /\ max_retries \in 0..MaxAttemptLimit
       \/ /\ \E tl \in IndexToolLists : agent_tools = [i \in 1..Len(agents) |-> tl]
          /\ max_retries \in 1..MaxIndexAttemptLimit
    /\ pc = "start"
    /\ IdleRun
    /\ IdlePorts
    /\ IdleRegistry
    /\ IdleApi
    /\ IdleExec

SpecRetry == InitRetry /\ [][Next]_vars

\* the resolver alone, on every unit list and edge list within the bounds
InitSched ==
    /\ agents \in AgentLists
    /\ edges \in EdgeLists
    /\ agent_inputs = [i \in 1..Len(agents) |-> {}]
    /\ agent_tools = [i \in 1..Len(agents) |-> <<>>]
    /\ max_retries = DefaultMaxRetries
    /\ pc = "sched"
    /\ IdleRun
    /\ IdlePorts
    /\ IdleRegistry
    /\ IdleApi
    /\ IdleExec

NextSched == SchedSort \/ SchedValidate

SpecSched == InitSched /\ [][NextSched]_vars

\* deployments against a pool some of whose ports other programs hold
InitPorts ==
    /\ allocated_ports = {}
    /\ active_services = [x \in {} |-> 0]
    /\ \E ext \in SUBSET PortRange :
          listening = [p \in PortRange |->
                          IF p \in ext THEN [kind |-> "external", who |-> 0] ELSE Free]
    /\ deploys = [d \in Deployers |-> NoDeploy]
    /\ children = [d \in Deployers |-> "none"]
    /\ last_call = NoCall
    /\ agents = <<"a">>
    /\ edges = <<>>
    /\ agent_inputs = [i \in 1..Len(agents) |-> {}]
    /\ agent_tools = [i \in 1..Len(agents) |-> <<>>]
    /\ max_retries = DefaultMaxRetries
    /\ pc = "sched"
    /\ IdleRun
    /\ IdleRegistry
    /\ IdleApi
    /\ IdleExec

NextPorts ==
    \/ \E d \in Deployers :
          \/ StartDeploy(d)
          \/ CheckAllocated(d)
          \/ BindProbe(d)
          \/ CommitPort(d)
          \/ CloseProbe(d)
          \/ Launch(d)
          \/ ChildStarts(d)
          \/ ServiceReady(d)
          \/ ServiceTimeout(d)
          \/ ChildExits(d)
          \/ StopService(d)
    \/ CleanupAll

SpecPorts == InitPorts /\ [][NextPorts]_vars

InitIdleWorkflow ==
    /\ agents = <<"a">>
    /\ edges = <<>>
    /\ agent_inputs = [i \in 1..Len(agents) |-> {}]
    /\ agent_tools = [i \in 1..Len(agents) |-> <<>>]
    /\ max_retries = DefaultMaxRetries
    /\ IdleRun
    /\ IdlePorts
    /\ IdleApi
    /\ IdleExec

\* calls of _provision_vector_db
InitNames ==
    /\ InitIdleWorkflow
    /\ pc = "tools"
    /\ \E id \in AgentIdTexts, purpose \in PurposeTexts :
          reg_call = [op |-> "_provision_vector_db", agent_id |-> id, purpose |-> purpose]
    /\ reg_result = NoRegistryCall

SpecNames == InitNames /\ [][ProvisionVectorDb]_vars

\* calls of provision_tool and of _provision_tools
InitTools ==
    /\ InitIdleWorkflow
    /\ pc = "tools"
    /\ \/ \E name \in ToolNames, ok \in BOOLEAN :
             reg_call = [op |-> "provision_tool", tool_name |-> name, create_ok |-> ok]
       \/ \E tools \in SeqsUpTo(ToolNames, MaxTools) :
             \E cf \in SUBSET {k \in 1..Len(tools) : tools[k] \in VectorDbTools} :
                reg_call = [op |-> "_provision_tools", tools |-> tools, create_fail |-> cf]
    /\ reg_result = NoRegistryCall

NextTools == ProvisionTool \/ ProvisionTools \/ CleanupTools

SpecTools == InitTools /\ [][NextTools]_vars

\* a generated or imported graph and the requests made on it
InitApi ==
    /\ agents = <<"a">>
    /\ edges = <<>>
    /\ agent_inputs = [i \in 1..Len(agents) |-> {}]
    /\ agent_tools = [i \in 1..Len(agents) |-> <<>>]
    /\ max_retries = DefaultMaxRetries
    /\ IdleRun
    /\ IdlePorts
    /\ pc = "api"
    /\ IdleRegistry
    /\ \E graph \in ApiGraphs : workflow_doc = DraftOf(graph)
    /\ calls = <<>>
    /\ IdleExec

NextApi == ApproveWorkflow \/ ModifyWorkflow \/ ExecuteWorkflow

SpecApi == InitApi /\ [][NextApi]_vars

\* code-execution calls of the units of one level
InitExec ==
    /\ agents = <<"a">>
    /\ edges = <<>>
    /\ agent_inputs = [i \in 1..Len(agents) |-> {}]
    /\ agent_tools = [i \in 1..Len(agents) |-> <<>>]
    /\ max_retries = DefaultMaxRetries
    /\ IdleRun
    /\ IdlePorts
    /\ pc = "exec"
    /\ IdleRegistry
    /\ IdleApi
    /\ IdleExec

NextExec ==
    \E r \in Runners :
        \/ StartExec(r)
        \/ OpenScript(r)
        \/ WriteScript(r)
        \/ RunScript(r)
        \/ ScriptExists(r)
        \/ RemoveScript(r)

SpecExec == InitExec /\ [][NextExec]_vars

(***************************************************************************)
(* Properties.                                                             *)
(***************************************************************************)
\* level of the unit at position i in the levels of the run
LevelIdx(i) == LevelOf(sorted.levels, agents[i])

UnitPositions == 1..Len(agents)

\* C1: for every acyclic graph with unique unit ids and known edge
\* endpoints, topological_sort does not raise, its levels concatenated hold
\* every unit id exactly once, and every edge leads from a level to a
\* strictly later level.
C1_LevelsOrderDag ==
    (sorted.called /\ IsDAG(agents, edges)) =>
        /\ ~sorted.raised
        /\ Len(Flatten(sorted.levels)) = Len(agents)
        /\ \A u \in Range(agents) : Occurrences(Flatten(sorted.levels), u) = 1
        /\ \A i \in 1..Len(edges) :
              LevelOf(sorted.levels, edges[i].from) < LevelOf(sorted.levels, edges[i].to)

\* a chain of three units has been sorted into three levels
C1_Witness ==
    /\ sorted.called
    /\ IsDAG(agents, edges)
    /\ Len(edges) >= 2
    /\ Len(sorted.levels) = 3

\* C2: when the edges contain a directed cycle (a self-loop, or a cycle no
\* source reaches, included) validate_workflow answers valid = false with at
\* least one error, and execute_workflow stops before an execution record is
\* inserted and before a unit is handed to the Invoker.
C2_CycleBlocksExecution ==
    HasCycle(edges) =>
        /\ validation.called => (~validation.valid /\ Len(validation.errors) >= 1)
        /\ pc \in {"start", "rejected"}
        /\ ~db_exec.exists
        /\ DOMAIN inv = {}
        /\ \A i \in UnitPositions : dispatch_count[i] = 0

\* a well-formed graph with a source unit and a cycle has been rejected
C2_Witness ==
    /\ pc = "rejected"
    /\ HasCycle(edges)
    /\ UniqueIds(agents)
    /\ EndpointsKnown(agents, edges)
    /\ \E u \in Range(agents) : Preds(edges, u) = {}

\* C3: a unit is handed to the Invoker only when every unit of every
\* earlier level has reached a terminal outcome (returned success, returned
\* failure after the last attempt, or raised).
C3_LevelBarrier ==
    \A i, j \in UnitPositions :
        (dispatch_count[i] > 0 /\ LevelIdx(j) < LevelIdx(i)) =>
            outcome[j].status \in {"completed", "failed", "raised"}

\* a unit of the second level runs after the two units of the first level
C3_Witness ==
    \E i \in UnitPositions :
        /\ dispatch_count[i] > 0
        /\ LevelIdx(i) = 2
        /\ Cardinality({j \in UnitPositions : LevelIdx(j) = 1}) = 2

\* an entry of the outputs map that reports the failure of its unit
IsFailurePayload(p) ==
    \/ p.kind = "error"
    \/ p.kind = "output" /\ "failed after attempts" \in p.value.tokens

\* C4: when a unit used up all its attempts without a success, the entry
\* stored under its id is an error payload and the run ends failed, never
\* completed, while the outputs of the units that succeeded are still in
\* the map.
C4_ExhaustedRunFails ==
    pc = "done" =>
        \A i \in UnitPositions :
            /\ outcome[i].status \in {"failed", "raised"} =>
                  /\ agents[i] \in DOMAIN context.agent_outputs
                  /\ IsFailurePayload(context.agent_outputs[agents[i]])
                  /\ returned.status = "failed"
                  /\ context.status = "failed"
                  /\ db_exec.status = "failed"
            /\ outcome[i].status = "completed" =>
                  /\ agents[i] \in DOMAIN context.agent_outputs
                  /\ context.agent_outputs[agents[i]].value = outcome[i].output

\* C5: a unit that failed all its attempts does not stop the run: every
\* unit is handed to the Invoker exactly once, and a unit receives, for each
\* declared input that is a unit of an earlier level, the output of that
\* unit when it succeeded and its failure payload when it failed.
C5_ContinueAfterFailure ==
    /\ \A i \in UnitPositions : dispatch_count[i] <= 1
    /\ pc = "done" => \A i \in UnitPositions : dispatch_count[i] = 1
    /\ \A i, d \in UnitPositions :
          (/\ dispatch_count[i] > 0
           /\ agents[d] \in agent_inputs[i]
           /\ LevelIdx(d) < LevelIdx(i)) =>
              /\ agents[d] \in DOMAIN unit_input[i].input_from
              /\ LET p == unit_input[i].input_from[agents[d]]
                 IN /\ outcome[d].status \in {"completed", "failed", "raised"}
                    /\ outcome[d].status = "completed" =>
                          p.kind = "output" /\ p.value = outcome[d].output
                    /\ outcome[d].status = "failed" =>
                          IsFailurePayload(p) /\ p.value = outcome[d].output
                    /\ outcome[d].status = "raised" =>
                          p.kind = "error" /\ p.error = outcome[d].error

\* the diamond a -> {b, c} -> d ran to its end with b failed and c succeeded
C5_Witness ==
    /\ pc = "done"
    /\ agents = Diamond[1]
    /\ outcome[2].status = "failed"
    /\ outcome[3].status = "completed"
    /\ dispatch_count[4] = 1
    /\ LevelIdx(4) = 3
    /\ IsFailurePayload(unit_input[4].input_from["b"])
    /\ unit_input[4].input_from["c"].value = outcome[3].output

\* an attempt whose output was classified successful but that was recorded
\* as failed: its error is the one of the error store
ClassifiedButFailed(h) == \E k \in 1..Len(h) : h[k].error = StoreError

\* C6: with attempt limit N >= 1 an invocation runs at most N attempts: it
\* returns success at the first attempt classified successful, or returns,
\* after exactly N failed attempts, a failure carrying the last error and an
\* error history of exactly N entries numbered 1..N.
C6_BoundedRetry ==
    max_retries >= 1 =>
        \A i \in DOMAIN inv :
            /\ inv[i].status = "running" =>
                  /\ inv[i].attempt <= max_retries
                  /\ ~ClassifiedButFailed(inv[i].error_history)
            /\ inv[i].status = "failed" =>
                  LET h == inv[i].result.error_history
                  IN /\ Len(h) = max_retries
                     /\ \A k \in 1..Len(h) : h[k].attempt = k
                     /\ inv[i].result.output = FailureOut(h[Len(h)].error)
                     /\ ~ClassifiedButFailed(h)

\* the names of the strategies by attempt index: baseline, targeted-fix,
\* externally-informed, full-rewrite, alternative-approach
ExpectedStrategies == <<"normal", "fix_obvious", "web_search", "rewrite", "alternative">>

ExpectedStrategy(k) == ExpectedStrategies[IF k < Len(ExpectedStrategies) THEN k
                                          ELSE Len(ExpectedStrategies)]

OrderedHistory(h) ==
    \A k \in 1..Len(h) : h[k].attempt = k /\ h[k].strategy = ExpectedStrategy(k)

HasSignal(out) == \E t \in out.tokens : \E sign \in execution_signs : Sub(sign, t)

HasPlanPhrase(out) == \E t \in out.tokens : \E phrase \in description_phrases : Sub(phrase, t)

\* C8: an attempt that raised nothing and whose output holds no completion
\* signal is recorded as a failed attempt and the next attempt follows; an
\* invocation returns success only with an output that holds a completion
\* signal and no description phrase.
C8_PlanningOnlyFails ==
    \A i \in DOMAIN inv :
        /\ (/\ inv[i].status = "running"
            /\ inv[i].attempt > 1
            /\ inv[i].last_output # NoOutput
            /\ ~HasSignal(inv[i].last_output)) =>
               LET h == inv[i].error_history
               IN /\ Len(h) = inv[i].attempt - 1
                  /\ h[Len(h)].error = DescriptionError
                  /\ h[Len(h)].attempt = inv[i].attempt - 1
        /\ inv[i].status = "completed" =>
               /\ HasSignal(inv[i].result.output)
               /\ ~HasPlanPhrase(inv[i].result.output)

\* the first attempt answered with planning language only; the second is due
C8_Witness ==
    \E i \in DOMAIN inv :
        /\ inv[i].status = "running"
        /\ inv[i].attempt = 2
        /\ inv[i].last_output = TextOut({"you should", "the steps are"})
        /\ inv[i].error_history[1].error = DescriptionError

\* C9: after every attempt, failed or not, no vector index created for an
\* attempt still exists.
C9_IndexesReleased == collections = {}

\* the deploy call got its port from _find_available_port
HoldsPort(d) == deploys[d].pc \in {"launch", "wait", "done"}

\* C10: concurrent deployments against a pool with enough free ports get
\* pairwise distinct ports, and no two recorded services have the same port.
C10_DistinctPorts ==
    Cardinality({p \in PortRange : listening[p].kind # "external"}) >= NumDeployers =>
        /\ \A d1 \in Deployers : \A d2 \in Deployers \ {d1} :
              (HoldsPort(d1) /\ HoldsPort(d2)) => deploys[d1].port # deploys[d2].port
        /\ \A s1 \in DOMAIN active_services : \A s2 \in DOMAIN active_services \ {s1} :
              active_services[s1].port # active_services[s2].port

\* the step of deploy call d from one position to another
Moves(d, from, to) == deploys[d].pc = from /\ deploys'[d].pc = to

AllocationError == "RuntimeError: No available ports"

\* C11: a port is committed to a deployment only when it is not in the
\* allocated set and the deployment's own bind probe holds it; the port a
\* deployment is given is held by no other deployment; and a search that
\* finds no port ends with the allocation error.
C11_CommitOnlyFree ==
    [][\A d \in Deployers :
          /\ Moves(d, "commit", "close") =>
                /\ deploys[d].cand \notin allocated_ports
                /\ listening[deploys[d].cand] = [kind |-> "probe", who |-> d]
          /\ Moves(d, "close", "launch") =>
                \A e \in Deployers \ {d} :
                    ~(HoldsPort(e) /\ deploys[e].port = deploys'[d].port)
          /\ Moves(d, "check", "failed") =>
                /\ deploys'[d].error = AllocationError
                /\ deploys'[d].port \notin PortRange]_vars

\* the step is a stop_service / cleanup_all call
Called(op) == last_call' # last_call /\ last_call'.op = op

\* C12: stop_service on a recorded service returns true, its process no
\* longer runs, its record is gone from the registry and its port is
\* neither allocated nor bound, so that a later deploy can be given it.
C12_StopReleases ==
    [][(Called("stop") /\ last_call'.id \in DOMAIN active_services) =>
          LET service == active_services[last_call'.id]
          IN /\ last_call'.ok
             /\ last_call'.id \notin DOMAIN active_services'
             /\ ~Running(children'[service.pid])
             /\ service.port \notin allocated_ports'
             /\ listening'[service.port] = Free]_vars

\* C13: a deploy call whose launched process does not accept connections on
\* its port ends with the timeout error, without a service record, and is
\* not run again; a record (status running) is inserted only when the
\* launched process accepts connections on the port of the deployment.
C13_ReadyBeforeRecord ==
    [][\A d \in Deployers :
          /\ (d \notin DOMAIN active_services /\ d \in DOMAIN active_services') =>
                /\ active_services'[d].status = "running"
                /\ children[d] = "listening"
                /\ listening[deploys[d].port] = [kind |-> "child", who |-> d]
          /\ Moves(d, "wait", "failed") =>
                /\ deploys'[d].error = "TimeoutError"
                /\ d \notin DOMAIN active_services'
          /\ deploys[d].pc = "failed" =>
                /\ deploys'[d] = deploys[d]
                /\ d \notin DOMAIN active_services']_vars

\* no deploy call is under way
NoDeployInFlight == \A d \in Deployers : deploys[d].pc \in {"idle", "done", "failed"}

\* C14: when cleanup_all returns (no deploy call being under way) the
\* registry holds no service record, no port is allocated and no child
\* process started by a deploy call is running.
C14_CleanupLeavesNothing ==
    [][(Called("cleanup") /\ NoDeployInFlight) =>
          /\ DOMAIN active_services' = {}
          /\ allocated_ports' = {}
          /\ \A d \in Deployers : ~Running(children'[d])]_vars

NameOf(result) == result.collection_name

\* C15: for every owner id and purpose the name of the collection that
\* _provision_vector_db creates uses only characters of [a-zA-Z0-9._-], is
\* at most 63 characters long, and starts and ends with a letter or digit.
C15_IndexNameWellFormed ==
    reg_result.op = "_provision_vector_db" =>
        LET name == NameOf(reg_result)
        IN /\ \A i \in 1..Len(name) : name[i] \in AllowedChars
           /\ Len(name) <= 63
           /\ Len(name) >= 1
           /\ Alnum(name[1])
           /\ Alnum(name[Len(name)])

UnknownName(name) == name \notin KnownTools

\* C16 (as stated): provisioning a logical name that matches none of the
\* known capabilities does not fail, it returns a code-execution sandbox.
C16_UnknownFallsBack ==
    (reg_result.op = "provision_tool" /\ UnknownName(reg_call.tool_name)) =>
        /\ ~reg_result.config.raised
        /\ reg_result.config.type = "code_execution"

\* C16 (amended): provision_tool raises for a logical name that matches
\* none of the known capabilities; _provision_tools prints a warning for it
\* and leaves it out, and the tools it returns start with the code-execution
\* sandbox, which is bound whatever the requirements are.
C16_UnknownOmitted ==
    /\ (reg_result.op = "provision_tool" /\ UnknownName(reg_call.tool_name)) =>
          reg_result.config.raised
    /\ reg_result.op = "_provision_tools" =>
          LET bound == reg_result.provisioned
          IN /\ Len(bound) >= 1
             /\ bound[1].type = "code_execution"
             /\ \A i \in 1..Len(bound) : ~UnknownName(bound[i].tool_name)
             /\ \A k \in 1..Len(reg_call.tools) :
                   UnknownName(reg_call.tools[k]) => reg_call.tools[k] \in reg_result.warned

C16_Witness ==
    /\ reg_result.op = "_provision_tools"
    /\ \E k \in 1..Len(reg_call.tools) : UnknownName(reg_call.tools[k])
    /\ reg_result.provisioned[1].type = "code_execution"

\* positions of the edges that name the id x as source, as destination
EdgesFrom(x) == {i \in 1..Len(edges) : edges[i].from = x}

EdgesTo(x) == {i \in 1..Len(edges) : edges[i].to = x}

UnknownEndpoints ==
    ({edges[i].from : i \in 1..Len(edges)} \cup {edges[i].to : i \in 1..Len(edges)})
        \ Range(agents)

\* C17: for every edge whose source or destination is not the id of a unit,
\* validate_workflow reports an error naming that id (one per such edge end)
\* and answers valid = false; execute_workflow stops before an execution
\* record is inserted and before a unit is handed to the Invoker.
C17_UnknownEdgeRejected ==
    \A x \in UnknownEndpoints :
        /\ validation.called =>
              /\ ~validation.valid
              /\ Cardinality({k \in 1..Len(validation.errors) :
                     validation.errors[k] = [kind |-> "unknown_agent", id |-> x]})
                 = Cardinality(EdgesFrom(x)) + Cardinality(EdgesTo(x))
        /\ pc \in {"start", "rejected"}
        /\ ~db_exec.exists
        /\ DOMAIN inv = {}
        /\ \A i \in UnitPositions : dispatch_count[i] = 0

\* an acyclic graph with an edge that leaves an unknown id has been rejected
C17_Witness ==
    /\ pc = "rejected"
    /\ validation.called
    /\ ~HasCycle(edges)
    /\ \E x \in UnknownEndpoints : EdgesFrom(x) # {}

\* the outputs-map entry that the result of a unit is stored as
EntryOf(result) ==
    IF result.status = "raised"
    THEN [Payload("error") EXCEPT !.error = result.error, !.status = "failed"]
    ELSE [Payload("output") EXCEPT !.value = result.output]

LastUnit == Len(agents)

\* units whose output announced a deployed service
AnnouncingUnits ==
    {i \in UnitPositions :
        /\ outcome[i].status \notin {"none", "raised"}
        /\ DeployedEntry(agents[i], outcome[i].output) # <<>>}

\* C18: the final result of a run is the outputs-map entry of the last unit
\* of the declared unit list, that is what was stored for that unit's own
\* result, in whatever level the unit ran; it is wrapped together with the
\* deployed-services list exactly when some unit announced a deployed
\* service, that is when the list is not empty.
C18_FinalResult ==
    pc = "done" =>
        LET outs     == context.agent_outputs
            services == outs["deployed_services"].list
        IN /\ agents[LastUnit] \in DOMAIN outs
           /\ returned.final_output = outs[agents[LastUnit]]
           /\ returned.final_output = EntryOf(outcome[LastUnit])
           /\ returned.wrapped <=> services # <<>>
           /\ returned.wrapped <=> AnnouncingUnits # {}
           /\ returned.wrapped => returned.deployed_services = services

\* a run has ended whose last declared unit ran in the first of two levels,
\* and whose final result is wrapped with a deployed service
C18_Witness ==
    /\ pc = "done"
    /\ Len(sorted.levels) >= 2
    /\ LevelOf(sorted.levels, agents[LastUnit]) = 1
    /\ returned.wrapped
    /\ outcome[LastUnit] # outcome[1]

\* units handed to the Invoker whose invocation has not ended
InFlight == {i \in DOMAIN inv : ~Terminal(inv[i])}

\* the record store holds what the units of the levels before level k left:
\* their entries of the outputs map, and the status they led to
StoreHoldsLevelsBefore(k) ==
    /\ db_exec.exists
    /\ db_exec.agent_outputs = context.agent_outputs
    /\ db_exec.status = context.status
    /\ \A j \in UnitPositions :
          (LevelIdx(j) >= 1 /\ LevelIdx(j) < k) =>
              /\ agents[j] \in DOMAIN db_exec.agent_outputs
              /\ db_exec.agent_outputs[agents[j]] = EntryOf(outcome[j])
              /\ outcome[j].status = "raised" => db_exec.status = "failed"

\* C19: when a unit of a level has been handed to the Invoker, the record
\* store holds the outputs and the status left by every unit of the levels
\* before it; and the record is not written while a unit is in flight.
C19_PersistBetweenLevels ==
    [][/\ \A i \in UnitPositions :
             dispatch_count'[i] > 0 => StoreHoldsLevelsBefore(LevelIdx(i))'
       /\ db_exec' # db_exec => (InFlight = {} /\ InFlight' = {})]_vars

\* a unit of the second level is in flight after a unit of the first level
\* raised, and the record shows the failure
C19_Witness ==
    /\ pc = "running"
    /\ level_num = 2
    /\ InFlight # {}
    /\ \E j \in UnitPositions : LevelIdx(j) = 1 /\ outcome[j].status = "raised"
    /\ db_exec.status = "failed"

\* the instructions of unit i as the graph stores them
StoredPrompt(i) == AgentConfig(agents[i]).detailed_prompt

\* C20: the configuration a unit was invoked with keeps its instructions
\* through every attempt and after the invocation has returned or raised;
\* the instructions used by attempt k are the stored instructions alone for
\* k = 1, and for k > 1 the stored instructions followed by exactly one
\* note, the one of the strategy of attempt k.
C20_PromptNotMutated ==
    [][\A i \in DOMAIN inv \cap DOMAIN inv' :
          (inv[i].status = "running" /\ inv'[i] # inv[i]) =>
              LET k    == inv[i].attempt
                  used == inv'[i].enhanced_config.detailed_prompt
              IN /\ inv'[i].agent_config.detailed_prompt = StoredPrompt(i)
                 /\ Len(used) = (IF k = 1 THEN 1 ELSE 2)
                 /\ used[1] = StoredPrompt(i)[1]
                 /\ k > 1 => used[2].part = ExpectedStrategy(k)]_vars

\* the fourth attempt of an invocation has run with the rewrite note, after
\* attempts with the notes of the second and third strategy
C20_Witness ==
    \E i \in DOMAIN inv :
        /\ inv[i].status = "running"
        /\ inv[i].attempt = 5
        /\ Len(inv[i].enhanced_config.detailed_prompt) = 2
        /\ inv[i].enhanced_config.detailed_prompt[2].part = "rewrite"
        /\ inv[i].agent_config.detailed_prompt = StoredPrompt(i)

\* requirement k of the call is one whose provisioning succeeds: a
\* predefined tool, a tool of the registry that is not a vector store, or a
\* vector store whose creation did not fail
ProvisionSucceeds(k) ==
    LET name == reg_call.tools[k]
    IN \/ name \in PredefinedTools
       \/ name \in McpTools \cup {"python_executor", "deploy_streamlit", "deploy_gradio"}
       \/ name \in VectorDbTools /\ k \notin reg_call.create_fail

\* the names of the succeeding requirements, in the order they were declared
SucceedingNames ==
    LET ks == SortedSeq({k \in 1..Len(reg_call.tools) : ProvisionSucceeds(k)})
    IN [n \in 1..Len(ks) |-> reg_call.tools[ks[n]]]

\* C21: the tools bound by _provision_tools are the code-execution sandbox,
\* whether or not the unit declares one, followed by exactly the declared
\* requirements whose provisioning succeeded, in declaration order; a
\* requirement whose provisioning fails is left out and the requirements
\* after it are still provisioned.
C21_BoundSet ==
    reg_result.op = "_provision_tools" =>
        LET bound == reg_result.provisioned
        IN /\ Len(bound) = 1 + Len(SucceedingNames)
           /\ bound[1].type = "code_execution" /\ bound[1].tool_name = "python_executor"
           /\ \A n \in 1..Len(SucceedingNames) :
                 /\ bound[n + 1].tool_name = SucceedingNames[n]
                 /\ ~bound[n + 1].raised

\* a requirement that failed is followed by one that was provisioned
C21_Witness ==
    /\ reg_result.op = "_provision_tools"
    /\ \E j, k \in 1..Len(reg_call.tools) :
          j < k /\ ~ProvisionSucceeds(j) /\ ProvisionSucceeds(k)
    /\ Len(reg_result.provisioned) = 2

\* C22: a graph that fails validation (a cycle, or an edge naming an id
\* that is no unit) does not have the status approved.
C22_InvalidNeverApproved ==
    (HasCycle(workflow_doc.edges)
        \/ ~EndpointsKnown(workflow_doc.agents, workflow_doc.edges))
    => workflow_doc.status # "approved"

\* request n was made while the graph was approved: an approve request
\* precedes it and no modify request took effect in between
ApprovedAt(n) ==
    \E m \in 1..(n - 1) :
        /\ calls[m] = Answer("approve", 200)
        /\ \A k \in (m + 1)..(n - 1) : calls[k] # Answer("modify", 200)

\* C24: an execute request is rejected for the status (answer 400) exactly
\* when the stored status is not approved, that is when no approve request
\* precedes it or a modify request took effect after the last approve; and
\* the stored status is draft after a modify request that took effect.
C24_ExecuteNeedsApproval ==
    /\ \A n \in 1..Len(calls) :
          calls[n].op = "execute" => (calls[n].code = 400 <=> ~ApprovedAt(n))
    /\ (calls # <<>> /\ calls[Len(calls)] = Answer("modify", 200))
          => workflow_doc.status = "draft"

\* an approved graph was executed, then modified, and the next execute
\* request was rejected
C24_Witness ==
    /\ Len(calls) = 4
    /\ calls[1] = Answer("approve", 200)
    /\ calls[2] = Answer("execute", 200)
    /\ calls[3] = Answer("modify", 200)
    /\ calls[4] = Answer("execute", 400)

\* position of the unit id u in the unit list
ListPosition(u) == CHOOSE i \in 1..Len(agents) : agents[i] = u

\* C25: in every level returned by topological_sort the unit ids appear in
\* the order in which the units are listed in the unit list.
C25_LevelInListOrder ==
    (sorted.called /\ ~sorted.raised /\ IsDAG(agents, edges)) =>
        \A k \in 1..Len(sorted.levels) :
            \A p, q \in 1..Len(sorted.levels[k]) :
                p < q => ListPosition(sorted.levels[k][p]) < ListPosition(sorted.levels[k][q])

\* the level the dependencies of u force: 1 for a unit without incoming
\* edge, else one more than the highest level of a dependency
ForcedLevel(u) ==
    IF Preds(edges, u) = {} THEN 1
    ELSE 1 + (CHOOSE m \in 1..Len(agents) :
                 /\ \E p \in Preds(edges, u) : LevelOf(sorted.levels, p) = m
                 /\ \A p \in Preds(edges, u) : LevelOf(sorted.levels, p) <= m)

\* C26: for an acyclic graph every unit is in the earliest level its
\* dependencies allow: the first level holds exactly the units without
\* incoming edge, and a unit of a later level has a dependency in the level
\* right before it and none in its own or a later level.
C26_EarliestLevel ==
    (sorted.called /\ IsDAG(agents, edges)) =>
        /\ ~sorted.raised
        /\ \A u \in Range(agents) : LevelOf(sorted.levels, u) = ForcedLevel(u)
        /\ \A u \in Range(agents) :
              LevelOf(sorted.levels, u) = 1 <=> Preds(edges, u) = {}

\* a unit with a dependency in the first and one in the second level was
\* put in the third level
C26_Witness ==
    /\ sorted.called
    /\ IsDAG(agents, edges)
    /\ \E u \in Range(agents) :
          /\ LevelOf(sorted.levels, u) = 3
          /\ \E p, q \in Preds(edges, u) :
                LevelOf(sorted.levels, p) = 1 /\ LevelOf(sorted.levels, q) = 2

\* the number of attempts an invocation may run
AttemptLimit == IF max_retries = 0 THEN DefaultMaxRetries ELSE max_retries

\* errors of an attempt: an exception of the attempt, or the classification
\* of its answer as a description
ErrorsOfAttempts == AttemptErrors \cup {DescriptionError}

EarlierInputs(i) ==
    {d \in UnitPositions : agents[d] \in agent_inputs[i] /\ LevelIdx(d) < LevelIdx(i)}

\* C28: at the step that builds the input of a unit, the outputs map holds,
\* for every declared input that is a unit of an earlier level, the entry
\* stored for that unit's final outcome, and this entry is the value passed;
\* no value of a unit of the same or a later level is passed; and the entry
\* in the map stays the value that was passed.
C28_InputsAreFinal ==
    [][\A i \in UnitPositions :
          /\ dispatch_count'[i] > dispatch_count[i] =>
                /\ \A d \in EarlierInputs(i) :
                      /\ Terminal(outcome[d])
                      /\ agents[d] \in DOMAIN context.agent_outputs
                      /\ context.agent_outputs[agents[d]] = EntryOf(outcome[d])
                      /\ agents[d] \in DOMAIN unit_input'[i].input_from
                      /\ unit_input'[i].input_from[agents[d]] = EntryOf(outcome[d])
                /\ DOMAIN unit_input'[i].input_from \cap Range(agents)
                      = {agents[d] : d \in EarlierInputs(i)}
          /\ dispatch_count'[i] > 0 =>
                \A d \in EarlierInputs(i) :
                    context'.agent_outputs[agents[d]] = unit_input'[i].input_from[agents[d]]]_vars

\* the last unit of a chain of three was handed the outcomes of both units
\* before it, the first of which had raised
C28_Witness ==
    /\ Len(agents) = 3
    /\ dispatch_count[3] = 1
    /\ LevelIdx(3) = 3
    /\ outcome[1].status = "raised"
    /\ DOMAIN unit_input[3].input_from \cap Range(agents) = {agents[1], agents[2]}

\* keys of the outputs map that recording an outcome may write besides the
\* key of the unit itself
SharedKeys == {"error_memory", "deployed_services"}

\* C29: the step that records the outcome of a unit writes the key of that
\* unit, and possibly the error-memory and deployed-services entries; every
\* other key of the outputs map, the entries of the other units among them,
\* is still there with the same value.  (Unit ids are not reserved keys.)
C29_OwnKeyOnly ==
    [][context'.agent_outputs # context.agent_outputs /\ pc = "store" =>
          LET i    == SortedSeq(DOMAIN inv)[store_idx]
              old  == context.agent_outputs
              new  == context'.agent_outputs
          IN /\ DOMAIN new = DOMAIN old \cup {agents[i]}
             /\ \A k \in DOMAIN old \ ({agents[i]} \cup SharedKeys) : new[k] = old[k]
             /\ \A j \in UnitPositions \ {i} :
                   agents[j] \in DOMAIN old =>
                       new[agents[j]] = old[agents[j]] /\ new[agents[j]] = EntryOf(outcome[j])]_vars

\* the outcomes of two units of one level have been recorded, the second
\* one an exception that also went to the error memory
C29_Witness ==
    /\ pc \in {"store", "dispatch", "finalize"}
    /\ Len(agents) >= 2
    /\ LevelIdx(1) = LevelIdx(2)
    /\ outcome[2].status = "raised"
    /\ agents[2] \in DOMAIN context.agent_outputs
    /\ context.agent_outputs["error_memory"].entries # {}
    /\ agents[1] \in DOMAIN context.agent_outputs
    /\ context.agent_outputs[agents[1]] = EntryOf(outcome[1])

\* the success records among the documents of the learned-solution store
SuccessRecords(docs) == {w \in docs : w.success}

\* C30: a success record is written to the learned-solution store exactly
\* at the step at which an invocation returns success from an attempt after
\* the first; it names the strategy of that attempt and the error of the
\* most recent failed attempt, and no success record is written when the
\* first attempt succeeds or when an attempt fails.
C30_LearnedOnRetrySuccess ==
    [][\A i \in DOMAIN inv \cap DOMAIN inv' :
          (inv[i].status = "running" /\ inv'[i] # inv[i]) =>
              LET written == SuccessRecords(error_solutions') \ SuccessRecords(error_solutions)
                  h       == inv[i].error_history
              IN IF inv'[i].status = "completed" /\ inv[i].attempt > 1
                 THEN written = {[error    |-> h[Len(h)].error,
                                  solution |-> ExpectedStrategy(inv[i].attempt),
                                  success  |-> TRUE]}
                 ELSE written = {}]_vars

\* the invocation succeeded at its third attempt, after an exception in the
\* first and a description in the second, and the store names web_search
\* and the error of the second attempt
C30_Witness ==
    \E i \in DOMAIN inv :
        /\ inv[i].status = "completed"
        /\ inv[i].result.attempts = 3
        /\ [error |-> DescriptionError, solution |-> "web_search", success |-> TRUE]
              \in error_solutions
        /\ \A w \in SuccessRecords(error_solutions) : w.error = DescriptionError

\* the notes _search_for_solution returns in place of findings
SearchNotes ==
    {"Web search unavailable", "Web search failed", "Could not search for solution"}

\* the errors an attempt can be recorded with
RecordedErrors == AttemptErrors \cup {DescriptionError, StoreError}

\* C31: the attempt with the web_search strategy runs whatever the lookup
\* did: its prompt is the instructions followed by the web_search note,
\* which holds the findings or, when the credential is missing or the lookup
\* failed or raised, one of the notes that stand for them; the step then
\* returns success with the output of this attempt or records the error of
\* the model call, of the classification or of the store, never one of the
\* lookup.
C31_SearchFailureTolerated ==
    [][\A i \in DOMAIN inv \cap DOMAIN inv' :
          (/\ inv[i].status = "running"
           /\ inv'[i] # inv[i]
           /\ ExpectedStrategy(inv[i].attempt) = "web_search") =>
              LET k    == inv[i].attempt
                  h    == inv[i].error_history
                  used == inv'[i].enhanced_config.detailed_prompt
                  note == used[2].errors
              IN /\ Len(used) = 2
                 /\ used[2].part = "web_search"
                 /\ used[2].error = h[Len(h)].error
                 /\ IF note.findings THEN note.text = "TOP SOLUTIONS"
                    ELSE note.text \in SearchNotes
                 /\ \/ /\ inv'[i].status = "completed"
                       /\ inv'[i].result.attempts = k
                       /\ _is_execution_successful(inv'[i].result.output)
                    \/ /\ inv'[i].status = "running"
                       /\ inv'[i].attempt = k + 1
                       /\ inv'[i].error_history[k].error \in RecordedErrors
                    \/ /\ inv'[i].status = "failed"
                       /\ inv'[i].result.error_history[k].error \in RecordedErrors
                    \/ inv'[i].status = "raised"]_vars

\* the third attempt returned success although its lookup had raised
C31_Witness ==
    \E i \in DOMAIN inv :
        /\ inv[i].status = "completed"
        /\ inv[i].result.attempts = 3
        /\ Len(inv[i].enhanced_config.detailed_prompt) = 2
        /\ inv[i].enhanced_config.detailed_prompt[2].errors.text
              = "Could not search for solution"

\* positions of the provisioned entries flagged as requiring cleanup
Flagged(provisioned) ==
    {k \in 1..Len(provisioned) : provisioned[k].cleanup_required}

\* C32: cleanup_tools hands to delete_collection exactly the collections of
\* the provisioned entries flagged as requiring cleanup, which are the
\* vector stores created for the call; afterwards every entry that is not
\* flagged (sandbox, predefined tool, client, deployment tool) is still
\* there, and a flagged one is gone unless its store reported that the
\* deletion failed.
C32_CleanupExactlyFlagged ==
    reg_result.op = "cleanup_tools" =>
        LET provisioned == reg_result.provisioned
        IN /\ reg_result.delete_calls
                 = {provisioned[k].collection : k \in Flagged(provisioned)}
           /\ \A k \in Flagged(provisioned) : provisioned[k].type = "vector_db"
           /\ \A k \in 1..Len(provisioned) :
                 /\ k \notin Flagged(provisioned) => k \in reg_result.live
                 /\ (k \in Flagged(provisioned) /\ k \notin reg_result.delete_failed)
                       => k \notin reg_result.live

\* cleanup ran on a list holding the sandbox, a client and a freshly created
\* index: only the index is gone
C32_Witness ==
    /\ reg_result.op = "cleanup_tools"
    /\ Len(reg_result.provisioned) = 3
    /\ reg_result.provisioned[2].type = "mcp"
    /\ reg_result.provisioned[3].type = "vector_db"
    /\ reg_result.live = {1, 2}

\* the output reports a published service with a URL
ReportsService(out) ==
    /\ out.form = "text"
    /\ HasPhrase(out, "deployed successfully")
    /\ out.tokens \cap UrlTokens # {}

\* the kind of service the output names: the deployment tools answer
\* "Streamlit app", "Gradio app" or "Flask app deployed successfully"
DeployedKind(out) ==
    IF "streamlit" \in out.tokens THEN "streamlit"
    ELSE IF "flask" \in out.tokens THEN "flask"
    ELSE "gradio"

\* the entries of the deployed-services list that name unit u
EntriesOf(u) ==
    LET list == context.agent_outputs["deployed_services"].list
    IN {k \in 1..Len(list) : list[k].agent = u}

\* C33: the deployed-services list holds, for every recorded unit that
\* succeeded with an output reporting a published service, exactly one entry
\* with the URL and the kind of that output, and no entry for any other unit.
C33_DeployedServicesRecorded ==
    "deployed_services" \in DOMAIN context.agent_outputs =>
        \A i \in UnitPositions :
            LET u    == agents[i]
                list == context.agent_outputs["deployed_services"].list
            IN IF /\ u \in DOMAIN context.agent_outputs
                  /\ outcome[i].status = "completed"
                  /\ ReportsService(outcome[i].output)
               THEN /\ Cardinality(EntriesOf(u)) = 1
                    /\ \A k \in EntriesOf(u) :
                          /\ list[k].url \in outcome[i].output.tokens
                          /\ list[k].type = DeployedKind(outcome[i].output)
               ELSE EntriesOf(u) = {}

\* C34: for a graph with unique unit ids, topological_sort raises the
\* circular-dependency error only when the edges hold a directed cycle.
C34_CycleErrorOnlyOnCycle ==
    (sorted.called /\ UniqueIds(agents) /\ sorted.raised) => HasCycle(edges)

\* C35: an attempt whose output was classified successful ends the
\* invocation: no step leaves the invocation running after such an attempt,
\* and none returns the failure outcome for it.
C35_SuccessEndsInvocation ==
    [][\A i \in DOMAIN inv \cap DOMAIN inv' :
          (inv[i].status = "running" /\ inv'[i] # inv[i]) =>
              /\ inv'[i].status = "running" =>
                    ~_is_execution_successful(inv'[i].last_output)
              /\ inv'[i].status = "failed" =>
                    LET h == inv'[i].result.error_history
                    IN h[Len(h)].error # StoreError]_vars

\* the deploy call d holds a port and has not returned yet
DeployInProgress(d) == deploys[d].pc \in {"close", "launch", "wait"}

\* C36: when a deploy call has returned an error after its port was
\* allocated, the port is no longer in the allocated set and the child the
\* call started is not running; so every allocated port is the port of a
\* recorded service or of a deploy call in progress.
C36_FailedDeployLeaksNothing ==
    /\ \A d \in Deployers :
          (deploys[d].pc = "failed" /\ deploys[d].port # 0) =>
              /\ ~Running(children[d])
              /\ \/ deploys[d].port \notin allocated_ports
                 \/ \E x \in DOMAIN active_services :
                       active_services[x].port = deploys[d].port
                 \/ \E e \in Deployers :
                       DeployInProgress(e) /\ deploys[e].cand = deploys[d].port
    /\ \A p \in allocated_ports :
          \/ \E x \in DOMAIN active_services : active_services[x].port = p
          \/ \E d \in Deployers : DeployInProgress(d) /\ deploys[d].cand = p

\* C37: every call of the code-execution capability runs the text it was
\* given and returns the result of that text, whatever other calls do at
\* the same time.
C37_RunsOwnCode ==
    \A r \in Runners :
        runners[r].pc \in {"exists", "remove", "done"} =>
            /\ runners[r].executed = runners[r].code
            /\ runners[r].result = OutputOf(runners[r].code)

\* the moves of an execution status: it is created running, and running
\* becomes completed or failed
StatusMove(s, t) ==
    \/ s = t
    \/ s \in {"pending", ""} /\ t = "running"
    \/ s = "running" /\ t \in {"completed", "failed"}

\* the units whose entry in the outputs map was recorded as failed
RecordedFailed(outs) ==
    {i \in UnitPositions : agents[i] \in DOMAIN outs /\ outs[agents[i]].status = "failed"}

\* C38: the status of the context and of the stored execution only moves
\* from running to completed or from running to failed, and the run ends
\* completed exactly when no entry of a unit was recorded as failed; the
\* status returned and the one stored are the one of the context.
C38_StatusMoves ==
    [][/\ StatusMove(context.status, context'.status)
       /\ StatusMove(db_exec.status, db_exec'.status)
       /\ pc' = "done" =>
             /\ context'.status \in {"completed", "failed"}
             /\ context'.status = "completed" <=> RecordedFailed(context'.agent_outputs) = {}
             /\ returned'.status = context'.status
             /\ db_exec'.status = context'.status]_vars

\* a run of two levels ended failed: the unit of the first level raised and
\* the unit of the second succeeded afterwards
C38_Witness ==
    /\ pc = "done"
    /\ Len(agents) >= 2
    /\ LevelIdx(1) = 1 /\ LevelIdx(2) = 2
    /\ outcome[1].status = "raised"
    /\ outcome[2].status = "completed"
    /\ context.status = "failed"
    /\ db_exec.status = "failed"

====
